---- MODULE Spec2Model ----
(***************************************************************************)
(* Model of the Arch Linux system cleaner (clean_cache.py): the scan /     *)
(* select / execute pipeline driven by main(), the deletion routine        *)
(* _clean_item, and the remote package index cache (AURCache).             *)
(*                                                                         *)
(* Indices held in selected_items are 0-based, as in the code; the item at *)
(* code index i is items_to_clean[i + 1] here.                             *)
(***************************************************************************)
EXTENDS Integers, Sequences, FiniteSets, TLC

(* ------------------------------ bounds -------------------------------- *)

\* most items one scan may report
MaxItems == 2
\* most sub-entries one check of a scan finds for an item
MaxSub == 1
\* most sub-entries in the payload of an item handed to _clean_item alone
MaxEntries == 2
\* most tagged snapshots present when the tool starts
MaxBackups == 2
\* most pages of the remote index told apart: offsets and request counts
\* past it are folded (the fetch loop reads neither to decide whether to go on)
MaxPages == 2
\* most calls of fetch_aur_packages, and most advances of the clock
MaxCalls == 3
MaxTicks == 3
\* most tagged snapshots handed to remove_old_backup called alone
MaxSnaps == 3
\* most package names in the pacman cache, and most archives of one package
MaxPkgNames == 2
MaxPkgFiles == 4
\* most entries of /etc handed to check_etc_orphaned_dirs called alone
MaxEtcDirs == 2
\* most entries of the directory handed to get_dir_size, and of one of its
\* sub-directories
MaxDirEntries == 2
MaxSubDirEntries == 1
\* most .pacnew / .pacsave files `find /etc` prints
MaxConfigFiles == 2
\* most files the search roots of check_duplicate_files hold
MaxDupFiles == 3
\* most cleanup runs that ask for a backup, one after another
MaxRuns == 3

(* --------------------------- program constants ------------------------ *)

\* broken_links[:100] - the slice kept in the payload of the symlink item
SymlinkListCap == 100
\* AURCache.cache_age_limit, seconds
cache_age_limit == 86400
\* results_per_page of fetch_aur_packages
results_per_page == 250
\* `if len(broken_links) > 1000` - the safety limit of check_broken_symlinks
BrokenLinksLimit == 1000

(* ------------------------------ variables ----------------------------- *)

VARIABLES
    pc,                      \* position of main() / of the function it is in
    check_idx,               \* position in the sequence of scan_system
    items_to_clean,          \* ArchCleaner.items_to_clean
    scan_ran,                \* history: the checks of scan_system that were entered
    log,                     \* the operation log file (cleanup.log), one record per line
    choice,                  \* the command last read by the prompt of select_items
    toggle_state,            \* history: the indices the commands so far leave selected
    selected_items,          \* local list of select_items (0-based indices)
    _current_selected_items, \* ArchCleaner._current_selected_items
    detail_index,            \* argument `index` of show_item_details
    is_selected,             \* local of show_item_details (the status it displays)
    _toggle_index,           \* ArchCleaner._toggle_index (-1: attribute not set)
    _toggle_value,           \* ArchCleaner._toggle_value
    selected,                \* list returned by select_items (argument of clean_items)
    returned_idx,            \* history: the indices behind `selected`
    create_backup,           \* local of clean_items
    proceed,                 \* history: answer to 'Proceed with cleanup?' ("none" before)
    clean_pos,               \* position of the for loop of clean_items
    clean_calls,             \* history: <<item, result>> of every _clean_item call
    timeshift_installed,     \* whether `which timeshift` succeeds
    snapshots,               \* tagged Timeshift snapshots (dates), newest first
    ts_calls,                \* history: mutating timeshift invocations ("delete"/"create")
    ci_item,                 \* _clean_item alone: its argument
    ci_env,                  \* _clean_item alone: what the commands and removals do
    ci_result,               \* _clean_item alone: "none" before the call, then the
                             \* returned bool and the sub-entries attempted
    now,                     \* time.time(), seconds
    ticks,                   \* history: advances of the clock so far
    cache_mtime,             \* st_mtime of aur_packages.json (-1: no such file)
    cache_packages,          \* the "packages" list in aur_packages.json
    aur_pc,                  \* position inside fetch_aur_packages ("idle": not in it)
    packages,                \* local set `packages` of fetch_aur_packages
    offset,                  \* local `offset` of fetch_aur_packages
    requests,                \* history: urlopen calls of the current / last call
    aur_return,              \* value returned by the last call
    aur_call,                \* history: the last call (kind, start, how it went)
    calls,                   \* history: calls of fetch_aur_packages so far
    fn,                      \* a function called alone: its name ("" when none is)
    arg,                     \* a function called alone: its argument and what it finds
    ret                      \* a function called alone: <<>> before the call, then
                             \* what it returned

pipelineVars ==
    <<pc, check_idx, items_to_clean, scan_ran, log, choice, toggle_state,
      selected_items, _current_selected_items, detail_index, is_selected, _toggle_index,
      _toggle_value, selected, returned_idx, create_backup, proceed, clean_pos,
      clean_calls, timeshift_installed, snapshots, ts_calls>>

ciVars == <<ci_item, ci_env, ci_result>>

aurVars ==
    <<now, ticks, cache_mtime, cache_packages, aur_pc, packages, offset,
      requests, aur_return, aur_call, calls>>

fnVars == <<fn, arg, ret>>

vars == <<pipelineVars, ciVars, aurVars, fnVars>>

(* ------------------------------ helpers ------------------------------- *)

Min(a, b) == IF a < b THEN a ELSE b

Range(s) == {s[i] : i \in 1..Len(s)}

\* Python `x in lst`
InList(x, lst) == x \in Range(lst)

\* Python lst.remove(x): drops the first occurrence of x
RECURSIVE ListRemove(_, _)
ListRemove(lst, x) ==
    IF lst = <<>> THEN <<>>
    ELSE IF Head(lst) = x THEN Tail(lst)
    ELSE <<Head(lst)>> \o ListRemove(Tail(lst), x)

(* ------------------------------- items -------------------------------- *)

\* the `safe` flag each check writes into the item it appends
SafeOf(type) == type \notin {"old_configs", "duplicates", "etc_orphaned"}

\* the `reversible` flag each check writes into the item it appends
ReversibleOf(type) ==
    type \in {"user_cache", "build_cache", "broken_symlinks", "duplicates",
              "thumbnails", "temp_files"}

\* categories whose payload is a list of sub-entries, with the payload key
ListTypes ==
    {"pacman_temp_downloads", "build_cache", "broken_symlinks", "old_configs",
     "duplicates", "etc_orphaned", "temp_files"}

\* An item: `count` is the number stated in the description (0: none stated),
\* `payload` the number of sub-entries in the payload list (0: no list),
\* `name` tells the user_cache items of one scan apart (their sub-directory).
Item(type, name, count, payload) ==
    [type |-> type, name |-> name, safe |-> SafeOf(type),
     reversible |-> ReversibleOf(type), count |-> count, payload |-> payload]

(* ------------------------------- log ---------------------------------- *)

\* log_operation(message): one line appended to cleanup.log.  A line is kept
\* as its message: the mark put before the text ("" when there is none) and
\* the text; the timestamp prefix is not kept.
log_operation(lg, mark, text) == Append(lg, [mark |-> mark, text |-> text])

\* item['description'] as the checks format it: category wording, the
\* sub-directory name for a user cache, and the stated count
Description(item) == <<item.type, item.name, item.count>>

(* ------------------------------- scan --------------------------------- *)

\* the calls of scan_system, in order
ScanSequence ==
    <<"get_installed_packages", "get_aur_packages", "check_pacman_cache",
      "check_pacman_temp_downloads", "check_orphan_packages",
      "check_journal_logs", "check_user_cache", "check_build_caches",
      "check_broken_symlinks", "check_old_configs", "check_duplicate_files",
      "check_etc_orphaned_dirs", "check_trash", "check_thumbnails",
      "check_temp_files">>

CmdFaults == {"cmd_missing", "cmd_nonzero", "cmd_timeout"}
FsFaults == {"perm_denied", "vanished"}

\* the failures that can occur inside a check: of the external command it
\* runs, of the filesystem entries it reads, of the network
Faults(c) ==
    CASE c \in {"get_installed_packages", "check_orphan_packages",
                "check_journal_logs", "check_old_configs"} -> CmdFaults
      [] c \in {"check_pacman_cache", "check_etc_orphaned_dirs"} ->
            CmdFaults \cup FsFaults
      [] c = "get_aur_packages" -> {"net_error"} \cup FsFaults
      [] OTHER -> FsFaults

\* the failures no except clause of the check catches:
\*   check_pacman_cache       x.stat() in the sort key and the size sum is
\*                            outside any try;
\*   check_user_cache         the first cache_dir.iterdir() is outside the try;
\*   check_duplicate_files    file_path.stat() sits under `except
\*                            PermissionError` only (a vanished file raises
\*                            FileNotFoundError);
\*   check_etc_orphaned_dirs  `pacman -Qo` sits under `except (OSError,
\*                            PermissionError)` and the loop under `except
\*                            PermissionError`; subprocess.TimeoutExpired is
\*                            neither;
\*   check_temp_files         path.stat() in the condition is outside the try.
Escapes ==
    {<<"check_pacman_cache", "vanished">>,
     <<"check_user_cache", "perm_denied">>,
     <<"check_duplicate_files", "vanished">>,
     <<"check_etc_orphaned_dirs", "cmd_timeout">>,
     <<"check_temp_files", "vanished">>}

\* the category a check reports ("" for the two inventory calls)
TypeOfCheck(c) ==
    CASE c = "check_pacman_cache" -> "pacman_cache"
      [] c = "check_pacman_temp_downloads" -> "pacman_temp_downloads"
      [] c = "check_orphan_packages" -> "orphans"
      [] c = "check_journal_logs" -> "journal"
      [] c = "check_user_cache" -> "user_cache"
      [] c = "check_build_caches" -> "build_cache"
      [] c = "check_broken_symlinks" -> "broken_symlinks"
      [] c = "check_old_configs" -> "old_configs"
      [] c = "check_duplicate_files" -> "duplicates"
      [] c = "check_etc_orphaned_dirs" -> "etc_orphaned"
      [] c = "check_trash" -> "trash"
      [] c = "check_thumbnails" -> "thumbnails"
      [] c = "check_temp_files" -> "temp_files"
      [] OTHER -> ""

\* The item lists a check that returns may append, `room` being what the
\* bound on the item list leaves.  A failed external command gives no item.
\* check_old_configs passes both capture_output=True and stderr= to
\* subprocess.run, which raises ValueError before `find` is started; its own
\* `except Exception` swallows it, so the check never appends.
\* check_user_cache appends one item per matching sub-directory.
Findings(c, f, room) ==
    LET t == TypeOfCheck(c) IN
    IF t = "" \/ f \in CmdFaults \/ c = "check_old_configs" \/ room = 0
        THEN {<<>>}
    ELSE IF t = "user_cache"
        THEN {<<>>} \cup {[i \in 1..k |-> Item(t, i, 0, 0)] : k \in 1..room}
    ELSE IF t \in {"journal", "trash", "thumbnails"}
        THEN {<<>>, <<Item(t, 0, 0, 0)>>}
    ELSE IF t = "pacman_cache"
        THEN {<<>>} \cup {<<Item(t, 0, n, 0)>> : n \in 1..MaxSub}
    ELSE IF t = "broken_symlinks"
        THEN {<<>>} \cup {<<Item(t, 0, n, Min(n, SymlinkListCap))>> : n \in 1..MaxSub}
    ELSE {<<>>} \cup {<<Item(t, 0, n, n)>> : n \in 1..MaxSub}

\* one check of scan_system runs and returns
CheckReturns ==
    /\ pc = "scan"
    /\ check_idx <= Len(ScanSequence)
    /\ LET c == ScanSequence[check_idx] IN
       \E f \in {"none"} \cup Faults(c) :
          /\ <<c, f>> \notin Escapes
          /\ \E found \in Findings(c, f, MaxItems - Len(items_to_clean)) :
                items_to_clean' = items_to_clean \o found
          /\ scan_ran' = Append(scan_ran, c)
    /\ check_idx' = check_idx + 1
    /\ UNCHANGED <<pc, log, selected_items, _current_selected_items,
                   detail_index, is_selected, _toggle_index, _toggle_value,
                   selected, returned_idx, create_backup, proceed, clean_pos,
                   clean_calls, timeshift_installed, snapshots, ts_calls,
                   choice, toggle_state, ciVars, aurVars,
                   fnVars>>

\* one check of scan_system raises: the exception leaves scan_system (which
\* has no try) and reaches the handler of main
CheckRaises ==
    /\ pc = "scan"
    /\ check_idx <= Len(ScanSequence)
    /\ LET c == ScanSequence[check_idx] IN
       /\ \E f \in Faults(c) : <<c, f>> \in Escapes
       /\ scan_ran' = Append(scan_ran, c)
    /\ pc' = "main_except"
    /\ UNCHANGED <<check_idx, items_to_clean, log, selected_items,
                   _current_selected_items, detail_index, is_selected,
                   _toggle_index, _toggle_value, selected, returned_idx,
                   create_backup, proceed, clean_pos, clean_calls,
                   timeshift_installed, snapshots, ts_calls, choice,
                   toggle_state, ciVars, aurVars,
                   fnVars>>

\* end of scan_system: total_size is summed and 'Scan completed' is logged
ScanFinish ==
    /\ pc = "scan"
    /\ check_idx > Len(ScanSequence)
    /\ log' = log_operation(log, "", <<"Scan completed", Len(items_to_clean)>>)
    /\ pc' = "display"
    /\ UNCHANGED <<check_idx, items_to_clean, scan_ran, selected_items,
                   _current_selected_items, detail_index, is_selected,
                   _toggle_index, _toggle_value, selected, returned_idx,
                   create_backup, proceed, clean_pos, clean_calls,
                   timeshift_installed, snapshots, ts_calls, choice,
                   toggle_state, ciVars, aurVars,
                   fnVars>>

\* main's `except Exception`: the error is printed and logged
MainExcept ==
    /\ pc = "main_except"
    /\ log' = log_operation(log, "", <<"Error">>)
    /\ pc' = "done"
    /\ UNCHANGED <<check_idx, items_to_clean, scan_ran, selected_items,
                   _current_selected_items, detail_index, is_selected,
                   _toggle_index, _toggle_value, selected, returned_idx,
                   create_backup, proceed, clean_pos, clean_calls,
                   timeshift_installed, snapshots, ts_calls, choice,
                   toggle_state, ciVars, aurVars,
                   fnVars>>

\* display_results() as main calls it: False (nothing to clean) ends the run
DisplayResults ==
    /\ pc = "display"
    /\ pc' = IF items_to_clean = <<>> THEN "done" ELSE "select"
    /\ UNCHANGED <<check_idx, items_to_clean, scan_ran, log, selected_items,
                   _current_selected_items, detail_index, is_selected,
                   _toggle_index, _toggle_value, selected, returned_idx,
                   create_backup, proceed, clean_pos, clean_calls,
                   timeshift_installed, snapshots, ts_calls, choice,
                   toggle_state, ciVars, aurVars,
                   fnVars>>

(* ------------------------------ selector ------------------------------ *)

\* the list comprehension of the 'a' command: the indices of the items with
\* safe=true, in list order
RECURSIVE SafeFrom(_, _)
SafeFrom(items, i) ==
    IF i >= Len(items) THEN <<>>
    ELSE (IF items[i + 1].safe THEN <<i>> ELSE <<>>) \o SafeFrom(items, i + 1)

\* an 'a' command that takes every index, safe or not
safe_items_all(items) == [k \in 1..Len(items) |-> k - 1]

safe_items(items) == SafeFrom(items, 0)

\* a return list whose items were marked safe on the way
ItemsAtMarkedSafe(items, idxs) ==
    [k \in 1..Len(idxs) |-> [items[idxs[k] + 1] EXCEPT !.safe = TRUE]]

\* [self.items_to_clean[i] for i in selected_items]
ItemsAt(items, idxs) == [k \in 1..Len(idxs) |-> items[idxs[k] + 1]]

\* 'q': cancelled, select_items returns [] and main skips clean_items
SelectQuit ==
    /\ pc = "select"
    /\ choice' = "q"
    /\ selected' = <<>>
    /\ pc' = "done"
    /\ UNCHANGED <<check_idx, items_to_clean, scan_ran, log, selected_items,
                   _current_selected_items, detail_index, is_selected,
                   _toggle_index, _toggle_value, returned_idx, create_backup,
                   proceed, clean_pos, clean_calls, timeshift_installed,
                   snapshots, ts_calls, toggle_state, ciVars, aurVars,
                   fnVars>>

\* 'a': the selection becomes the safe items, when there is one
SelectAuto ==
    /\ pc = "select"
    /\ choice' = "a"
    /\ toggle_state' =
          IF \E i \in 1..Len(items_to_clean) : items_to_clean[i].safe
             THEN {i - 1 : i \in {k \in 1..Len(items_to_clean) : items_to_clean[k].safe}}
             ELSE toggle_state
    /\ IF safe_items(items_to_clean) # <<>>
          THEN /\ selected_items' = safe_items(items_to_clean)
               /\ _current_selected_items' = safe_items(items_to_clean)
          ELSE UNCHANGED <<selected_items, _current_selected_items>>
    /\ UNCHANGED <<pc, check_idx, items_to_clean, scan_ran, log, detail_index,
                   is_selected, _toggle_index, _toggle_value, selected,
                   returned_idx, create_backup, proceed, clean_pos,
                   clean_calls, timeshift_installed, snapshots, ts_calls,
                   ciVars, aurVars,
                   fnVars>>

\* 'c': with a selection, select_items returns the selected items and main
\* calls clean_items; without one the loop goes on
SelectContinue ==
    /\ pc = "select"
    /\ choice' = "c"
    /\ IF selected_items = <<>>
          THEN UNCHANGED <<pc, selected, returned_idx>>
          ELSE /\ selected' = ItemsAt(items_to_clean, selected_items)
               /\ returned_idx' = selected_items
               /\ pc' = "clean_items"
    /\ UNCHANGED <<check_idx, items_to_clean, scan_ran, log, selected_items,
                   _current_selected_items, detail_index, is_selected,
                   _toggle_index, _toggle_value, create_backup, proceed,
                   clean_pos, clean_calls, timeshift_installed, snapshots,
                   ts_calls, toggle_state, ciVars, aurVars,
                   fnVars>>

\* a number in range: show_item_details(idx) is entered and reads the status
\* of the item from _current_selected_items
SelectDetails ==
    /\ pc = "select"
    /\ choice' = "details"
    /\ \E n \in 1..Len(items_to_clean) :
          /\ detail_index' = n - 1
          /\ is_selected' = InList(n - 1, _current_selected_items)
    /\ pc' = "detail"
    /\ UNCHANGED <<check_idx, items_to_clean, scan_ran, log, selected_items,
                   _current_selected_items, _toggle_index, _toggle_value,
                   selected, returned_idx, create_backup, proceed, clean_pos,
                   clean_calls, timeshift_installed, snapshots, ts_calls,
                   toggle_state, ciVars, aurVars,
                   fnVars>>

\* a number out of range, or a text that int() rejects: a message, nothing else
SelectInvalid ==
    /\ pc = "select"
    /\ choice' = "invalid"
    /\ \/ \E n \in {0, Len(items_to_clean) + 1} : n \notin 1..Len(items_to_clean)
       \/ \E text \in {"", "x"} : text \notin {"q", "a", "c"}
    /\ UNCHANGED <<pc, check_idx, items_to_clean, scan_ran, log,
                   selected_items, _current_selected_items, detail_index,
                   is_selected, _toggle_index, _toggle_value, selected,
                   returned_idx, create_backup, proceed, clean_pos,
                   clean_calls, timeshift_installed, snapshots, ts_calls,
                   toggle_state, ciVars, aurVars,
                   fnVars>>

\* 's' in the detail view: the displayed status flips and is left in the two
\* attributes for select_items
DetailToggle ==
    /\ pc = "detail"
    /\ is_selected' = ~is_selected
    /\ toggle_state' = IF detail_index \in toggle_state
                          THEN toggle_state \ {detail_index}
                          ELSE toggle_state \cup {detail_index}
    /\ _toggle_index' = detail_index
    /\ _toggle_value' = ~is_selected
    /\ UNCHANGED <<pc, check_idx, items_to_clean, scan_ran, log,
                   selected_items, _current_selected_items, detail_index,
                   selected, returned_idx, create_backup, proceed, clean_pos,
                   clean_calls, timeshift_installed, snapshots, ts_calls,
                   choice, ciVars, aurVars,
                   fnVars>>

\* a toggle handling that appends without looking for the index first
ApplyToggleNoCheck(sel, has_toggle, t_index, t_value) ==
    IF ~has_toggle THEN sel
    ELSE IF t_value THEN Append(sel, t_index)
    ELSE (IF InList(t_index, sel) THEN ListRemove(sel, t_index) ELSE sel)

\* the toggle handling of select_items after show_item_details returned;
\* append and remove act on the one list both names refer to
ApplyToggle(sel, has_toggle, t_index, t_value) ==
    IF ~has_toggle THEN sel
    ELSE IF t_value
        THEN (IF ~InList(t_index, sel) THEN Append(sel, t_index) ELSE sel)
        ELSE (IF InList(t_index, sel) THEN ListRemove(sel, t_index) ELSE sel)

\* any other input in the detail view: back to the menu, where the toggle
\* left behind (if any) is applied and the two attributes are deleted
DetailBack ==
    /\ pc = "detail"
    /\ LET sel == ApplyToggle(selected_items, _toggle_index # -1,
                              _toggle_index, _toggle_value) IN
       /\ selected_items' = sel
       /\ _current_selected_items' =
             IF _toggle_index # -1 THEN sel ELSE _current_selected_items
    /\ _toggle_index' = -1
    /\ _toggle_value' = FALSE
    /\ detail_index' = -1
    /\ is_selected' = FALSE
    /\ pc' = "select"
    /\ UNCHANGED <<check_idx, items_to_clean, scan_ran, log, selected,
                   returned_idx, create_backup, proceed, clean_pos,
                   clean_calls, timeshift_installed, snapshots, ts_calls,
                   choice, toggle_state, ciVars, aurVars,
                   fnVars>>

(* --------------------------- external commands ------------------------ *)

\* how one subprocess.run can end
CmdOutcomes == {"exit0", "nonzero", "missing", "timeout"}

\* subprocess.run([...]) of an argument list: "returned" with an exit status,
\* or an exception (FileNotFoundError for a missing program, TimeoutExpired)
RunArgv(out) ==
    CASE out = "exit0" -> [raised |-> FALSE, returncode |-> 0]
      [] out = "nonzero" -> [raised |-> FALSE, returncode |-> 1]
      [] OTHER -> [raised |-> TRUE, returncode |-> -1]

\* subprocess.run(command, shell=True): the shell is what is started, so a
\* missing program is the shell's exit status 127, not an exception
RunShell(out) ==
    CASE out = "exit0" -> [raised |-> FALSE, returncode |-> 0]
      [] out = "nonzero" -> [raised |-> FALSE, returncode |-> 1]
      [] out = "missing" -> [raised |-> FALSE, returncode |-> 127]
      [] OTHER -> [raised |-> TRUE, returncode |-> -1]

(* ------------------------------ _clean_item --------------------------- *)

\* The environment of one _clean_item call: the outcome of the (at most two)
\* external commands, and the sub-entries whose removal fails.
CleanEnvs(item) ==
    [cmd1 : IF item.type \in {"pacman_cache", "orphans", "journal"}
               THEN CmdOutcomes ELSE {"exit0"},
     cmd2 : IF item.type = "pacman_cache" THEN CmdOutcomes ELSE {"exit0"},
     fail : IF item.type \in ListTypes THEN SUBSET (1..item.payload) ELSE {{}}]

\* branches that remove a sub-entry with Path.unlink(), which raises OSError
\* when it fails; the others use shutil.rmtree(..., ignore_errors=True), which
\* never raises
RemovalRaises(type) ==
    type \in {"broken_symlinks", "old_configs", "duplicates", "temp_files"}

\* branches whose except clause does `failed += 1` (the others `pass`)
CountsFailure(type) ==
    type \in {"old_configs", "duplicates", "etc_orphaned", "temp_files"}

\* the value of `failed` after the loop over the sub-entries
FailedCount(type, payload, fail) ==
    Cardinality({e \in 1..payload :
                    e \in fail /\ RemovalRaises(type) /\ CountsFailure(type)})

\* the sub-entries the loop of a list branch reaches (no branch breaks or
\* returns inside its loop)
Attempted(type, payload) == IF type \in ListTypes THEN 1..payload ELSE {}

\* the pacman_cache branch: two paccache runs whose results are assigned to
\* result1 and result2 and not read; an exception of either is caught by the
\* outer handler
CleanPacmanCache(env) ==
    IF RunArgv(env.cmd1).raised THEN FALSE
    ELSE IF RunArgv(env.cmd2).raised THEN FALSE
    ELSE TRUE

\* the orphans and journal branches: item["command"] through the shell
CleanByCommand(env) ==
    IF RunShell(env.cmd1).raised THEN FALSE
    ELSE RunShell(env.cmd1).returncode = 0

\* _clean_item(item) -> bool
_clean_item(item, env) ==
    CASE item.type = "pacman_cache" -> CleanPacmanCache(env)
      [] item.type \in {"orphans", "journal"} -> CleanByCommand(env)
      [] item.type \in {"user_cache", "trash", "thumbnails"} -> TRUE
      [] item.type \in {"pacman_temp_downloads", "build_cache",
                        "broken_symlinks"} -> TRUE
      [] item.type \in {"old_configs", "duplicates", "etc_orphaned",
                        "temp_files"} ->
            FailedCount(item.type, item.payload, env.fail) = 0
      [] OTHER -> FALSE

(* ------------------------------ Timeshift ----------------------------- *)

RECURSIVE SortDesc(_)
SortDesc(S) ==
    IF S = {} THEN <<>>
    ELSE LET m == CHOOSE x \in S : \A y \in S : y <= x
         IN <<m>> \o SortDesc(S \ {m})

\* get_cleaner_backups: the tagged snapshots, newest first; [] on any failure
get_cleaner_backups(snaps, listOut) ==
    IF RunArgv(listOut).raised \/ RunArgv(listOut).returncode # 0 THEN <<>>
    ELSE SortDesc(snaps)

\* remove_old_backup: the snapshots left, and whether `timeshift delete` ran
remove_old_backup(snaps, listOut, delOut) ==
    LET backups == get_cleaner_backups(snaps, listOut) IN
    IF Len(backups) > 1
        THEN [snaps |-> IF RunArgv(delOut).raised
                             \/ RunArgv(delOut).returncode # 0
                           THEN snaps
                           ELSE snaps \ {backups[Len(backups)]},
              calls |-> <<"delete">>]
        ELSE [snaps |-> snaps, calls |-> <<>>]

\* the date a snapshot created now gets
NewDate(snaps) == IF snaps = {} THEN 1 ELSE (CHOOSE x \in snaps : \A y \in snaps : y <= x) + 1

\* TimeshiftManager.create_backup: nothing without the tool; else `timeshift
\* create`, which adds a tagged snapshot when it exits 0
ts_create_backup(snaps, installed, createOut) ==
    IF ~installed THEN [snaps |-> snaps, calls |-> <<>>, made |-> FALSE]
    ELSE IF ~RunArgv(createOut).raised /\ RunArgv(createOut).returncode = 0
        THEN [snaps |-> snaps \cup {NewDate(snaps)}, calls |-> <<"create">>,
              made |-> TRUE]
        ELSE [snaps |-> snaps, calls |-> <<"create">>, made |-> FALSE]

\* a backup made without pruning first
ensure_backup_unpruned(snaps, installed, listOut, delOut, createOut) ==
    LET made == ts_create_backup(snaps, installed, createOut)
    IN [snaps |-> made.snaps, calls |-> made.calls, made |-> made.made]

\* ensure_single_backup: prune, then create
ensure_single_backup(snaps, installed, listOut, delOut, createOut) ==
    LET pruned == remove_old_backup(snaps, listOut, delOut)
        made == ts_create_backup(pruned.snaps, installed, createOut)
    IN [snaps |-> made.snaps, calls |-> pruned.calls \o made.calls,
        made |-> made.made]

(* ------------------------------ clean_items --------------------------- *)

\* where clean_items goes after its two prompts with the backup moved before
\* the 'Proceed with cleanup?' test
AfterConfirmBackupFirst(yes, backup) ==
    IF backup THEN "backup" ELSE IF ~yes THEN "done" ELSE "clean_start"

\* where clean_items goes after its two prompts when it never calls
\* ensure_single_backup
AfterConfirmSkipBackup(yes, backup) ==
    IF ~yes THEN "done" ELSE "clean_start"

\* where clean_items goes after its two prompts: `return` when the user
\* declines, else the backup when one was asked for, else the cleanup
AfterConfirm(yes, backup) ==
    IF ~yes THEN "done" ELSE IF backup THEN "backup" ELSE "clean_start"

\* clean_items up to its two prompts: the backup question (asked only when
\* Timeshift is there) and 'Proceed with cleanup?'
CleanConfirm ==
    /\ pc = "clean_items"
    /\ \E wantBackup \in BOOLEAN, yes \in BOOLEAN :
          /\ create_backup' = (timeshift_installed /\ wantBackup)
          /\ proceed' = IF yes THEN "yes" ELSE "no"
          /\ pc' = AfterConfirm(yes, timeshift_installed /\ wantBackup)
    /\ UNCHANGED <<check_idx, items_to_clean, scan_ran, log, selected_items,
                   _current_selected_items, detail_index, is_selected,
                   _toggle_index, _toggle_value, selected, returned_idx,
                   clean_pos, clean_calls, timeshift_installed, snapshots,
                   ts_calls, choice, toggle_state, ciVars, aurVars,
                   fnVars>>

\* `if create_backup:` - the call of ensure_single_backup, whose result
\* clean_items does not read
CleanBackup ==
    /\ pc = "backup"
    /\ \E listOut \in CmdOutcomes, delOut \in CmdOutcomes, createOut \in CmdOutcomes :
          LET r == ensure_single_backup(snapshots, timeshift_installed,
                                        listOut, delOut, createOut) IN
          /\ snapshots' = r.snaps
          /\ ts_calls' = ts_calls \o r.calls
    /\ pc' = "clean_start"
    /\ UNCHANGED <<check_idx, items_to_clean, scan_ran, log, selected_items,
                   _current_selected_items, detail_index, is_selected,
                   _toggle_index, _toggle_value, selected, returned_idx,
                   create_backup, proceed, clean_pos, clean_calls,
                   timeshift_installed, choice, toggle_state, ciVars, aurVars,
                   fnVars>>

\* 'Cleanup started' is logged and the for loop begins
CleanStart ==
    /\ pc = "clean_start"
    /\ log' = log_operation(log, "", <<"Cleanup started">>)
    /\ clean_pos' = 1
    /\ pc' = "cleaning"
    /\ UNCHANGED <<check_idx, items_to_clean, scan_ran, selected_items,
                   _current_selected_items, detail_index, is_selected,
                   _toggle_index, _toggle_value, selected, returned_idx,
                   create_backup, proceed, clean_calls, timeshift_installed,
                   snapshots, ts_calls, choice, toggle_state, ciVars, aurVars,
                   fnVars>>

\* a mark that ignores the result of the routine
MarkAlwaysOk(success) == "ok"

\* the mark of the log line of one item
Mark(success) == IF success THEN "ok" ELSE "fail"

\* a loop that gives up at the first failed item
LoopStopOnFailure(pos, success, n) == IF success THEN pos + 1 ELSE n + 1

\* `for item in items`: the position after one turn, whatever _clean_item
\* returned (n is len(items))
LoopAdvance(pos, success, n) == pos + 1

\* one turn of the for loop: _clean_item, then the log line of the item
CleanNext ==
    /\ pc = "cleaning"
    /\ clean_pos <= Len(selected)
    /\ LET item == selected[clean_pos] IN
       \E env \in CleanEnvs(item) :
          LET success == _clean_item(item, env) IN
          /\ clean_calls' = Append(clean_calls, [item |-> item, ok |-> success])
          /\ log' = log_operation(log, Mark(success), Description(item))
          /\ clean_pos' = LoopAdvance(clean_pos, success, Len(selected))
    /\ UNCHANGED <<pc, check_idx, items_to_clean, scan_ran, selected_items,
                   _current_selected_items, detail_index, is_selected,
                   _toggle_index, _toggle_value, selected, returned_idx,
                   create_backup, proceed, timeshift_installed, snapshots,
                   ts_calls, choice, toggle_state, ciVars, aurVars,
                   fnVars>>

\* the loop is over: 'Cleanup completed', clean_items returns, main ends
CleanFinish ==
    /\ pc = "cleaning"
    /\ clean_pos > Len(selected)
    /\ pc' = "done"
    /\ UNCHANGED <<check_idx, items_to_clean, scan_ran, log, selected_items,
                   _current_selected_items, detail_index, is_selected,
                   _toggle_index, _toggle_value, selected, returned_idx,
                   create_backup, proceed, clean_pos, clean_calls,
                   timeshift_installed, snapshots, ts_calls, choice,
                   toggle_state, ciVars, aurVars,
                   fnVars>>

(* ---------------------------- specification --------------------------- *)

\* the item and the environment of no _clean_item call
NoCall == [type |-> "", name |-> 0, safe |-> FALSE, reversible |-> FALSE,
           count |-> 0, payload |-> 0]
NoEnv == [cmd1 |-> "exit0", cmd2 |-> "exit0", fail |-> {}]
NoResult == [called |-> FALSE, ok |-> FALSE, attempted |-> {}]

CleanItemIdle ==
    /\ ci_item = NoCall
    /\ ci_env = NoEnv
    /\ ci_result = NoResult

\* no call of fetch_aur_packages yet, no cache file
NoAurCall ==
    [kind |-> "none", start |-> 0, done |-> FALSE, raised |-> FALSE,
     cut |-> FALSE]

AurIdle ==
    /\ now = 0
    /\ ticks = 0
    /\ cache_mtime = -1
    /\ cache_packages = {}
    /\ aur_pc = "idle"
    /\ packages = {}
    /\ offset = 0
    /\ requests = 0
    /\ aur_return = {}
    /\ aur_call = NoAurCall
    /\ calls = 0

\* no function is called alone
NoFn ==
    /\ fn = ""
    /\ arg = <<>>
    /\ ret = <<>>

\* main() after the construction of ArchCleaner
Init ==
    /\ CleanItemIdle
    /\ NoFn
    /\ AurIdle
    /\ pc = "scan"
    /\ check_idx = 1
    /\ items_to_clean = <<>>
    /\ scan_ran = <<>>
    /\ log = <<>>
    /\ choice = ""
    /\ toggle_state = {}
    /\ selected_items = <<>>
    /\ _current_selected_items = <<>>
    /\ detail_index = -1
    /\ is_selected = FALSE
    /\ _toggle_index = -1
    /\ _toggle_value = FALSE
    /\ selected = <<>>
    /\ returned_idx = <<>>
    /\ create_backup = FALSE
    /\ proceed = "none"
    /\ clean_pos = 0
    /\ clean_calls = <<>>
    /\ timeshift_installed \in BOOLEAN
    /\ snapshots \in {1..k : k \in 0..(IF timeshift_installed THEN MaxBackups ELSE 0)}
    /\ ts_calls = <<>>

Next ==
    \/ CheckReturns
    \/ CheckRaises
    \/ ScanFinish
    \/ MainExcept
    \/ DisplayResults
    \/ SelectQuit
    \/ SelectAuto
    \/ SelectContinue
    \/ SelectDetails
    \/ SelectInvalid
    \/ DetailToggle
    \/ DetailBack
    \/ CleanConfirm
    \/ CleanBackup
    \/ CleanStart
    \/ CleanNext
    \/ CleanFinish

Spec == Init /\ [][Next]_vars

(* --------------------------- _clean_item alone ------------------------ *)

\* every item a check can build, with up to MaxEntries sub-entries
AllItems ==
    {Item(t, 0, 0, 0) : t \in {"journal", "trash", "thumbnails"}}
    \cup {Item("user_cache", 1, 0, 0)}
    \cup {Item(t, 0, n, 0) : t \in {"pacman_cache", "orphans"}, n \in 1..MaxEntries}
    \cup {Item(t, 0, n, n) : t \in ListTypes, n \in 1..MaxEntries}

PipelineIdle ==
    /\ pc = "done"
    /\ check_idx = 1
    /\ items_to_clean = <<>>
    /\ scan_ran = <<>>
    /\ log = <<>>
    /\ choice = ""
    /\ toggle_state = {}
    /\ selected_items = <<>>
    /\ _current_selected_items = <<>>
    /\ detail_index = -1
    /\ is_selected = FALSE
    /\ _toggle_index = -1
    /\ _toggle_value = FALSE
    /\ selected = <<>>
    /\ returned_idx = <<>>
    /\ create_backup = FALSE
    /\ proceed = "none"
    /\ clean_pos = 0
    /\ clean_calls = <<>>
    /\ timeshift_installed = FALSE
    /\ snapshots = {}
    /\ ts_calls = <<>>

InitCleanItem ==
    /\ PipelineIdle
    /\ NoFn
    /\ AurIdle
    /\ ci_item \in AllItems
    /\ ci_env \in CleanEnvs(ci_item)
    /\ ci_result = NoResult

\* the call _clean_item(ci_item) in the environment ci_env
CallCleanItem ==
    /\ ~ci_result.called
    /\ ci_result' = [called |-> TRUE, ok |-> _clean_item(ci_item, ci_env),
                     attempted |-> Attempted(ci_item.type, ci_item.payload)]
    /\ UNCHANGED <<ci_item, ci_env, pipelineVars, aurVars, fnVars>>

NextCleanItem == CallCleanItem

SpecCleanItem == InitCleanItem /\ [][NextCleanItem]_vars

(* ----------------------- AURCache.fetch_aur_packages ------------------ *)

\* how far the clock may advance in one step: a second, 23 hours, one second
\* short of 24 hours, 25 hours
TickSteps == {1, 23 * 3600, cache_age_limit - 1, 25 * 3600}

\* a cache that is never taken as valid
cache_never_valid(mtime, t) == FALSE

\* _cache_is_valid: the file exists and its age is below the limit
_cache_is_valid(mtime, t) ==
    IF mtime = -1 THEN FALSE ELSE t - mtime < cache_age_limit

\* the names on the page the server returns at `off` with n results
PageNames(off, n) == (off + 1)..(off + n)

\* What one urlopen + json.loads + field access can give:
\*   "page"            a parsed answer with its resultcount and n results;
\*   "URLError", "JSONDecodeError"    the two exceptions the inner handler names;
\*   "KeyError"        an answer without "resultcount", or a result without "Name";
\*   "TimeoutError"    the socket timeout of response.read().
\* The server is free to serve a full page at every offset.
Responses(reqs) ==
    {[kind |-> "page", resultcount |-> rc, n |-> n] :
        rc \in {0, 1}, n \in {0, 1, results_per_page}}
    \cup {[kind |-> k, resultcount |-> 0, n |-> 0] :
            k \in {"URLError", "JSONDecodeError", "KeyError", "TimeoutError"}}

\* offset += results_per_page; an offset past MaxPages pages is folded back
\* onto the first pages
NextOffset(off) == (off + results_per_page) % ((MaxPages + 1) * results_per_page)

\* one more urlopen call; counts past MaxPages + 1 are not told apart
CountRequest(reqs) == Min(reqs + 1, MaxPages + 1)

\* the exceptions `except (urllib.error.URLError, json.JSONDecodeError)` catches
InnerCaught(kind) == kind \in {"URLError", "JSONDecodeError"}

\* the clock advances between two calls
AurTick ==
    /\ aur_pc = "idle"
    /\ ticks < MaxTicks
    /\ \E d \in TickSteps : now' = now + d
    /\ ticks' = ticks + 1
    /\ UNCHANGED <<cache_mtime, cache_packages, aur_pc, packages, offset,
                   requests, aur_return, aur_call, calls, pipelineVars,
                   ciVars, fnVars>>

\* a call that finds the cache valid: the file's list is returned
AurCallHit ==
    /\ aur_pc = "idle"
    /\ calls < MaxCalls
    /\ _cache_is_valid(cache_mtime, now)
    /\ aur_return' = cache_packages
    /\ requests' = 0
    /\ aur_call' = [kind |-> "hit", start |-> now, done |-> TRUE, raised |-> FALSE,
                     cut |-> FALSE]
    /\ calls' = calls + 1
    /\ UNCHANGED <<now, ticks, cache_mtime, cache_packages, aur_pc, packages,
                   offset, pipelineVars, ciVars, fnVars>>

\* a call that finds no valid cache: the fetch sequence begins
AurCallMiss ==
    /\ aur_pc = "idle"
    /\ calls < MaxCalls
    /\ ~_cache_is_valid(cache_mtime, now)
    /\ packages' = {}
    /\ offset' = 0
    /\ requests' = 0
    /\ aur_call' = [kind |-> "miss", start |-> now, done |-> FALSE, raised |-> FALSE,
                     cut |-> FALSE]
    /\ calls' = calls + 1
    /\ aur_pc' = "fetching"
    /\ UNCHANGED <<now, ticks, cache_mtime, cache_packages, aur_return,
                   pipelineVars, ciVars, fnVars>>

\* one turn of `while True` that parses a page: stop on resultcount 0, else
\* add the names, stop on a page that is not full, else move the offset
AurPage ==
    /\ aur_pc = "fetching"
    /\ \E r \in Responses(requests) :
          /\ r.kind = "page"
          /\ IF r.resultcount = 0
                THEN /\ aur_pc' = "saving"
                     /\ UNCHANGED <<packages, offset>>
                ELSE /\ packages' = packages \cup PageNames(offset, r.n)
                     /\ IF r.n < results_per_page
                           THEN /\ aur_pc' = "saving"
                                /\ UNCHANGED offset
                           ELSE /\ aur_pc' = "fetching"
                                /\ offset' = NextOffset(offset)
    /\ requests' = CountRequest(requests)
    /\ UNCHANGED <<now, ticks, cache_mtime, cache_packages, aur_return,
                   aur_call, calls, pipelineVars, ciVars, fnVars>>

\* one turn of `while True` that raises what the inner handler catches: break
AurPageError ==
    /\ aur_pc = "fetching"
    /\ \E r \in Responses(requests) : r.kind # "page" /\ InnerCaught(r.kind)
    /\ requests' = CountRequest(requests)
    /\ aur_call' = [aur_call EXCEPT !.cut = TRUE]
    /\ aur_pc' = "saving"
    /\ UNCHANGED <<now, ticks, cache_mtime, cache_packages, packages, offset,
                   aur_return, calls, pipelineVars, ciVars, fnVars>>

\* one turn of `while True` that raises anything else: the outer `except
\* Exception` returns set(); the cache file is not written
AurPageRaise ==
    /\ aur_pc = "fetching"
    /\ \E r \in Responses(requests) : r.kind # "page" /\ ~InnerCaught(r.kind)
    /\ requests' = CountRequest(requests)
    /\ aur_return' = {}
    /\ aur_call' = [aur_call EXCEPT !.done = TRUE, !.raised = TRUE]
    /\ aur_pc' = "idle"
    /\ UNCHANGED <<now, ticks, cache_mtime, cache_packages, packages, offset,
                   calls, pipelineVars, ciVars, fnVars>>

\* after the loop: the set and time.time() are written to the cache file and
\* the set is returned
AurSave ==
    /\ aur_pc = "saving"
    /\ cache_packages' = packages
    /\ cache_mtime' = now
    /\ aur_return' = packages
    /\ aur_call' = [aur_call EXCEPT !.done = TRUE]
    /\ aur_pc' = "idle"
    /\ UNCHANGED <<now, ticks, packages, offset, requests, calls, pipelineVars,
                   ciVars, fnVars>>

\* the cache directory as a first run finds it (no file), or as an earlier
\* run left it (a list written at time 0)
InitAUR ==
    /\ PipelineIdle
    /\ NoFn
    /\ CleanItemIdle
    /\ now = 0
    /\ ticks = 0
    /\ \E had \in BOOLEAN :
          /\ cache_mtime = IF had THEN 0 ELSE -1
          /\ cache_packages = IF had THEN PageNames(0, 1) ELSE {}
    /\ aur_pc = "idle"
    /\ packages = {}
    /\ offset = 0
    /\ requests = 0
    /\ aur_return = {}
    /\ aur_call = NoAurCall
    /\ calls = 0

NextAUR ==
    \/ AurTick
    \/ AurCallHit
    \/ AurCallMiss
    \/ AurPage
    \/ AurPageError
    \/ AurPageRaise
    \/ AurSave

SpecAUR == InitAUR /\ [][NextAUR]_vars

\* Every urlopen call is given timeout=10, so a turn of the fetch loop ends
\* (with an answer or an exception), and the write of the cache file ends.
FetchTurn == AurPage \/ AurPageError \/ AurPageRaise

SpecAURLive ==
    InitAUR /\ [][NextAUR]_vars /\ WF_vars(FetchTurn) /\ WF_vars(AurSave)

(* ------------------ TimeshiftManager.remove_old_backup ---------------- *)

\* remove_old_backup() alone: the dates of the tagged snapshots there are, and
\* what `timeshift --list` and `timeshift delete` do
InitRemoveOld ==
    /\ PipelineIdle
    /\ CleanItemIdle
    /\ AurIdle
    /\ fn = "remove_old_backup"
    /\ arg \in [snaps : SUBSET (1..MaxSnaps), listOut : CmdOutcomes,
                 delOut : CmdOutcomes]
    /\ ret = <<>>

\* the call remove_old_backup()
CallRemoveOld ==
    /\ fn = "remove_old_backup"
    /\ ret = <<>>
    /\ ret' = remove_old_backup(arg.snaps, arg.listOut, arg.delOut)
    /\ UNCHANGED <<fn, arg, pipelineVars, ciVars, aurVars>>

NextRemoveOld == CallRemoveOld

SpecRemoveOld == InitRemoveOld /\ [][NextRemoveOld]_vars

\* Cleanup runs that ask for a backup, one after another, on the snapshots
\* the run before left: `arg` is what the first run finds, `ret` what the
\* runs so far made of it - the tagged snapshots, how many runs there were,
\* whether `which timeshift` and every timeshift call of every run
\* succeeded, what the last run found and deleted, and the timeshift
\* commands it ran.
InitBackupRuns ==
    /\ PipelineIdle
    /\ CleanItemIdle
    /\ AurIdle
    /\ fn = "ensure_single_backup"
    /\ arg \in {[snaps |-> 1..k] : k \in 0..MaxBackups}
    /\ ret = [snaps |-> arg.snaps, runs |-> 0, all_ok |-> TRUE,
              before |-> arg.snaps, deleted |-> {}, calls |-> <<>>]

\* one more run: the call ensure_single_backup()
CallEnsureSingleBackup ==
    /\ fn = "ensure_single_backup"
    /\ ret.runs < MaxRuns
    /\ \E installed \in BOOLEAN, listOut \in CmdOutcomes, delOut \in CmdOutcomes,
          createOut \in CmdOutcomes :
          LET r == ensure_single_backup(ret.snaps, installed, listOut, delOut,
                                        createOut) IN
          ret' = [snaps |-> r.snaps,
                  runs |-> ret.runs + 1,
                  all_ok |-> /\ ret.all_ok
                             /\ installed
                             /\ listOut = "exit0"
                             /\ delOut = "exit0"
                             /\ createOut = "exit0",
                  before |-> ret.snaps,
                  deleted |-> ret.snaps \ r.snaps,
                  calls |-> r.calls]
    /\ UNCHANGED <<fn, arg, pipelineVars, ciVars, aurVars>>

NextBackupRuns == CallEnsureSingleBackup

SpecBackupRuns == InitBackupRuns /\ [][NextBackupRuns]_vars

(* -------------------- ArchCleaner.check_pacman_cache ----------------- *)

MiB == 1024 * 1024

\* `if size_to_remove > 100 * 1024 * 1024`
PacmanCacheThreshold == 100 * MiB

\* st_size of the archives of the cache
PkgFileSizes == {30 * MiB, 80 * MiB}

\* sorted(pkg_files, key=st_mtime, reverse=True): a group is a set of files
\* [mtime, size] with distinct mtimes
RECURSIVE SortByMtimeDesc(_)
SortByMtimeDesc(files) ==
    IF files = {} THEN <<>>
    ELSE LET f == CHOOSE x \in files : \A y \in files : y.mtime <= x.mtime
         IN <<f>> \o SortByMtimeDesc(files \ {f})

\* sorted_files[1:] of a group with more than one file, [] of the others
OldPackages(pkg_files) ==
    IF Cardinality(pkg_files) > 1
        THEN Tail(SortByMtimeDesc(pkg_files))
        ELSE <<>>

RECURSIVE SumSizes(_)
SumSizes(files) ==
    IF files = <<>> THEN 0 ELSE Head(files).size + SumSizes(Tail(files))

\* the loop over package_groups.items(): size_to_remove and
\* packages_to_remove after the groups 1..n
RECURSIVE CountOld(_, _)
CountOld(package_groups, n) ==
    IF n = 0 THEN [size_to_remove |-> 0, packages_to_remove |-> 0]
    ELSE LET rest == CountOld(package_groups, n - 1)
             old == OldPackages(package_groups[n])
         IN [size_to_remove |-> rest.size_to_remove + SumSizes(old),
             packages_to_remove |-> rest.packages_to_remove + Len(old)]

\* check_pacman_cache on a cache whose files are grouped by package name
\* (the name of an archive without its last three '-' parts): the two sums,
\* and the item appended when the size is above 100 MiB (<<>>: none)
check_pacman_cache(package_groups) ==
    LET c == CountOld(package_groups, Len(package_groups)) IN
    [size_to_remove |-> c.size_to_remove,
     packages_to_remove |-> c.packages_to_remove,
     items |-> IF c.size_to_remove > PacmanCacheThreshold
                  THEN <<[type |-> "pacman_cache", size |-> c.size_to_remove,
                          count |-> c.packages_to_remove]>>
                  ELSE <<>>]

\* the groups one package name can have: k archives with mtimes 1..k
PkgGroups ==
    UNION {{ {[mtime |-> i, size |-> sz[i]] : i \in 1..k} :
                sz \in [1..k -> PkgFileSizes]} : k \in 1..MaxPkgFiles}

InitPacmanCache ==
    /\ PipelineIdle
    /\ CleanItemIdle
    /\ AurIdle
    /\ fn = "check_pacman_cache"
    /\ arg \in UNION {[1..n -> PkgGroups] : n \in 1..MaxPkgNames}
    /\ ret = <<>>

\* the call check_pacman_cache()
CallPacmanCache ==
    /\ fn = "check_pacman_cache"
    /\ ret = <<>>
    /\ ret' = check_pacman_cache(arg)
    /\ UNCHANGED <<fn, arg, pipelineVars, ciVars, aurVars>>

NextPacmanCache == CallPacmanCache

SpecPacmanCache == InitPacmanCache /\ [][NextPacmanCache]_vars

(* --------- check_pacman_cache against _clean_item("pacman_cache") ----- *)

\* the archives of the cache: (package name, file) pairs
ArchivesOf(package_groups, names) ==
    UNION {{<<n, f>> : f \in package_groups[n]} : n \in names}

\* the archives whose st_size the scan adds to size_to_remove
CountedArchives(package_groups) ==
    UNION {{<<n, f>> : f \in Range(OldPackages(package_groups[n]))} :
              n \in 1..Len(package_groups)}

\* what is left of a sequence after its first k elements
RECURSIVE Drop(_, _)
Drop(seq, k) == IF k = 0 \/ seq = <<>> THEN seq ELSE Drop(Tail(seq), k - 1)

\* `paccache -r -k<keep>` over the packages `names`, when it exits with 0:
\* of each package all archives but the `keep` most recent are removed
paccache(package_groups, names, keep, out) ==
    IF out # "exit0" THEN {}
    ELSE UNION {{<<n, f>> : f \in Range(Drop(SortByMtimeDesc(package_groups[n]), keep))} :
                   n \in names}

\* The pacman_cache branch of _clean_item: `paccache -rk3` over all packages,
\* then `paccache -ruk0` over the packages that are no longer installed; the
\* results of both are dropped. The archives removed.
RemovedByClean(cache, out1, out2) ==
    LET names == 1..Len(cache.package_groups)
        first == paccache(cache.package_groups, names, 3, out1)
        left == [n \in names |->
                    {f \in cache.package_groups[n] : <<n, f>> \notin first}]
    IN first \cup paccache(left, cache.uninstalled, 0, out2)

\* a package cache: its groups, and the package names no longer installed
PacmanCaches ==
    [package_groups : UNION {[1..n -> PkgGroups] : n \in 1..MaxPkgNames},
     uninstalled : {{}, {1}}]

InitScanAndClean ==
    /\ PipelineIdle
    /\ CleanItemIdle
    /\ AurIdle
    /\ fn = "pacman_cache"
    /\ arg \in PacmanCaches
    /\ ret = <<>>

\* check_pacman_cache() and then, on the item it appended, _clean_item()
CallScanAndClean ==
    /\ fn = "pacman_cache"
    /\ ret = <<>>
    /\ \E out1 \in {"exit0", "nonzero"}, out2 \in {"exit0", "nonzero"} :
          ret' = [items |-> check_pacman_cache(arg.package_groups).items,
                  counted |-> CountedArchives(arg.package_groups),
                  outs |-> <<out1, out2>>,
                  removed |-> IF check_pacman_cache(arg.package_groups).items # <<>>
                                 THEN RemovedByClean(arg, out1, out2)
                                 ELSE {}]
    /\ UNCHANGED <<fn, arg, pipelineVars, ciVars, aurVars>>

NextScanAndClean == CallScanAndClean

SpecScanAndClean == InitScanAndClean /\ [][NextScanAndClean]_vars

(* ------------------ ArchCleaner.check_etc_orphaned_dirs --------------- *)

\* A file name is kept as its '-'-separated words, written in lower case, and
\* whether the name as it is on disk has upper-case letters.
Name(words, upper) == [words |-> words, upper |-> upper]

\* str.lower()
Lower(name) == [name EXCEPT !.upper = FALSE]

\* `app in name` for a lower-case app of one word: a substring test, at the
\* grain of words
Contains(name, app) ==
    /\ name.upper = app.upper
    /\ \E i \in 1..Len(name.words) : <<name.words[i]>> = app.words

\* entries of self.system_critical_dirs
system_critical_dirs == {Name(<<"ssl">>, FALSE), Name(<<"hosts">>, FALSE)}

\* the names n of /etc for which str(Path("/etc") / n) is in self.critical_files
critical_files == {Name(<<"hosts">>, FALSE)}

\* entries of common_apps
common_apps == {Name(<<"nginx">>, FALSE)}

\* self.aur_packages as get_aur_packages left it
aur_packages == {Name(<<"yay">>, FALSE), Name(<<"paru", "bin">>, TRUE)}

\* is_aur_package with the name compared as it is written
is_aur_package_exact(name) == name \in aur_packages

\* is_aur_package: name.lower() in {pkg.lower() for pkg in self.aur_packages}
is_aur_package(name) == Lower(name) \in {Lower(pkg) : pkg \in aur_packages}

\* the names the entries of /etc may have
EtcNames ==
    {Name(<<"ssl">>, FALSE), Name(<<"ssl">>, TRUE), Name(<<"hosts">>, FALSE),
     Name(<<"nginx", "sites">>, TRUE), Name(<<"yay">>, TRUE),
     Name(<<"paru", "bin">>, FALSE), Name(<<"foo">>, FALSE)}

\* an entry of /etc: its name, whether it is a directory, what `pacman -Qo`
\* does for it, and what get_dir_size returns for it
EtcEntries ==
    [name : EtcNames, is_dir : {TRUE}, owned : CmdOutcomes, size : {0, 4096}]
    \cup [name : EtcNames, is_dir : {FALSE}, owned : {"nonzero"}, size : {4096}]

\* `pacman -Qo` of one entry: "owned" (exit 0: continue), "raise" (a
\* TimeoutExpired, which `except (OSError, PermissionError)` does not catch),
\* "unowned" (another exit status, or the OSError of a missing pacman)
OwnerQuery(out) ==
    IF RunArgv(out).raised
       THEN IF out = "timeout" THEN "raise" ELSE "unowned"
       ELSE IF RunArgv(out).returncode = 0 THEN "owned" ELSE "unowned"

\* whether one turn of the loop over etc_dir.iterdir() reaches `continue`
\* before the ownership query
SkippedBeforeQuery(d) ==
    \/ ~d.is_dir
    \/ d.name \in system_critical_dirs
    \/ d.name \in critical_files

\* whether one turn reaches `continue` after an ownership query that did not
\* say "owned"
SkippedAfterQuery(d) ==
    \/ is_aur_package(d.name)
    \/ \E app \in common_apps : Contains(Lower(d.name), app)

\* the loop over etc_dir.iterdir() from entry i on: orphaned_dirs at the end,
\* or the exception that leaves the function
RECURSIVE EtcLoop(_, _, _)
EtcLoop(entries, i, orphaned_dirs) ==
    IF i > Len(entries) THEN [raised |-> FALSE, orphaned_dirs |-> orphaned_dirs]
    ELSE LET d == entries[i] IN
         IF SkippedBeforeQuery(d) THEN EtcLoop(entries, i + 1, orphaned_dirs)
         ELSE IF OwnerQuery(d.owned) = "raise"
            THEN [raised |-> TRUE, orphaned_dirs |-> orphaned_dirs]
         ELSE IF OwnerQuery(d.owned) = "owned" \/ SkippedAfterQuery(d)
            THEN EtcLoop(entries, i + 1, orphaned_dirs)
         ELSE IF d.size > 0
            THEN EtcLoop(entries, i + 1,
                         Append(orphaned_dirs, [name |-> d.name, size |-> d.size]))
         ELSE EtcLoop(entries, i + 1, orphaned_dirs)

\* check_etc_orphaned_dirs: the item appended (<<>>: none) and whether an
\* exception left the function
check_etc_orphaned_dirs(entries) ==
    LET r == EtcLoop(entries, 1, <<>>) IN
    [raised |-> r.raised,
     items |-> IF ~r.raised /\ r.orphaned_dirs # <<>>
                  THEN <<[type |-> "etc_orphaned", dirs |-> r.orphaned_dirs]>>
                  ELSE <<>>]

\* /etc: entries with distinct names
InitEtcOrphaned ==
    /\ PipelineIdle
    /\ CleanItemIdle
    /\ AurIdle
    /\ fn = "check_etc_orphaned_dirs"
    /\ arg \in UNION {[1..n -> EtcEntries] : n \in 1..MaxEtcDirs}
    /\ \A i, j \in 1..Len(arg) : i # j => arg[i].name # arg[j].name
    /\ ret = <<>>

\* the call check_etc_orphaned_dirs()
CallEtcOrphaned ==
    /\ fn = "check_etc_orphaned_dirs"
    /\ ret = <<>>
    /\ ret' = check_etc_orphaned_dirs(arg)
    /\ UNCHANGED <<fn, arg, pipelineVars, ciVars, aurVars>>

NextEtcOrphaned == CallEtcOrphaned

SpecEtcOrphaned == InitEtcOrphaned /\ [][NextEtcOrphaned]_vars

(* ----------------------- ArchCleaner.get_dir_size --------------------- *)

\* An entry of a directory: what it is ("file": a regular file, "symlink",
\* "dir"), the st_size the entry (for a symlink: its target) has, what reading
\* it raises ("gone": FileNotFoundError, "perm_denied": PermissionError), and,
\* for a directory or a symlink to one, the entries below it.
Entry(kind, size, fault, children) ==
    [kind |-> kind, size |-> size, fault |-> fault, children |-> children]

\* the entries that have none below them: a file, a file that vanished
\* before its stat(), a symlink to a file
LeafEntries ==
    {Entry("file", 4096, "none", <<>>), Entry("file", 4096, "gone", <<>>),
     Entry("symlink", 100, "none", <<>>)}

\* the lists of entries of a directory that holds no directory
LeafLists == UNION {[1..n -> LeafEntries] : n \in 0..MaxSubDirEntries}

\* a sub-directory, a sub-directory that cannot be read, a symlink to a
\* directory
DirEntries ==
    {Entry("dir", 0, f, c) : f \in {"none", "perm_denied"}, c \in LeafLists}
    \cup {Entry("symlink", 0, "none", c) : c \in LeafLists}

\* the trees: a directory, which may itself be unreadable or gone
DirTrees ==
    {Entry("dir", 0, f, c) :
        f \in {"none", "perm_denied", "gone"},
        c \in UNION {[1..n -> LeafEntries \cup DirEntries] : n \in 0..MaxDirEntries}}

\* entry.is_file() with symlinks followed
is_file_following(e) == e.children = <<>> /\ e.kind \in {"file", "symlink"}

\* entry.is_file(follow_symlinks=False)
is_file(e) == e.kind = "file"

\* entry.is_dir(follow_symlinks=False)
is_dir(e) == e.kind = "dir"

\* get_dir_size(path): 0 when os.scandir(path) raises PermissionError or
\* FileNotFoundError; else the sum, over its entries, of st_size for a file
\* (0 when its stat() raises) and of get_dir_size for a directory
RECURSIVE get_dir_size(_)
RECURSIVE DirTotal(_, _)
DirTotal(entries, n) ==
    IF n = 0 THEN 0
    ELSE LET e == entries[n] IN
         DirTotal(entries, n - 1)
         + (IF is_file(e) THEN (IF e.fault = "none" THEN e.size ELSE 0)
            ELSE IF is_dir(e) THEN get_dir_size(e)
            ELSE 0)

get_dir_size(path) ==
    IF path.fault \in {"perm_denied", "gone"} THEN 0
    ELSE DirTotal(path.children, Len(path.children))

InitDirSize ==
    /\ PipelineIdle
    /\ CleanItemIdle
    /\ AurIdle
    /\ fn = "get_dir_size"
    /\ arg \in DirTrees
    /\ ret = <<>>

\* the call get_dir_size(arg)
CallDirSize ==
    /\ fn = "get_dir_size"
    /\ ret = <<>>
    /\ ret' = [total |-> get_dir_size(arg)]
    /\ UNCHANGED <<fn, arg, pipelineVars, ciVars, aurVars>>

NextDirSize == CallDirSize

SpecDirSize == InitDirSize /\ [][NextDirSize]_vars

(* ------------------- ArchCleaner.check_broken_symlinks ---------------- *)

\* The directories a home tree may have, as paths below the home directory,
\* in the order os.walk (top-down) comes to them.
HomeDirs ==
    << <<>>,
       <<"proj">>,
       <<"proj", ".git">>,
       <<".cache">>,
       <<".local">>,
       <<".local", "share">>,
       <<".local", "share", "Trash">>,
       <<"snap">> >>

\* the directory a path is in
Parent(path) == SubSeq(path, 1, Len(path) - 1)

\* the last component of a path: the name os.walk lists in `dirs`
BaseName(path) == path[Len(path)]

\* how many broken symlinks a directory may hold directly (-1: the directory
\* does not exist)
LinkCounts == {0, 1, BrokenLinksLimit}

\* the home trees: the directories that exist (the home directory does, and
\* so does the parent of one that does) with their broken symlinks
HomeTrees ==
    {t \in [1..Len(HomeDirs) -> {-1} \cup LinkCounts] :
        /\ t[1] # -1
        /\ \A i \in 2..Len(HomeDirs) :
              t[i] # -1 =>
                 \E j \in 1..(i - 1) : HomeDirs[j] = Parent(HomeDirs[i]) /\ t[j] # -1}

\* the names the walk removes from `dirs`
SkippedNames == {".git", ".cache", ".local/share/Trash", "snap"}

\* whether os.walk comes to directory i: it exists, its name was left in
\* `dirs`, and the walk came to its parent
RECURSIVE Walked(_, _)
Walked(tree, i) ==
    IF i = 1 THEN TRUE
    ELSE /\ tree[i] # -1
         /\ BaseName(HomeDirs[i]) \notin SkippedNames
         /\ \E j \in 1..(i - 1) :
               HomeDirs[j] = Parent(HomeDirs[i]) /\ Walked(tree, j)

\* len(broken_links)
RECURSIVE LinksIn(_)
LinksIn(broken_links) ==
    IF broken_links = <<>> THEN 0
    ELSE Head(broken_links).links + LinksIn(Tail(broken_links))

\* the loop over os.walk(home) from directory i on: the broken symlinks of a
\* directory are appended, then the limit is tested, once per directory
RECURSIVE WalkHome(_, _, _)
WalkHome(tree, i, broken_links) ==
    IF i > Len(HomeDirs) THEN broken_links
    ELSE IF ~Walked(tree, i) THEN WalkHome(tree, i + 1, broken_links)
    ELSE LET found == IF tree[i] > 0
                         THEN Append(broken_links,
                                     [root |-> HomeDirs[i], links |-> tree[i]])
                         ELSE broken_links
         IN IF LinksIn(found) > BrokenLinksLimit
               THEN found
               ELSE WalkHome(tree, i + 1, found)

\* check_broken_symlinks: broken_links (per directory: how many it holds)
\* and the item appended (<<>>: none)
check_broken_symlinks(tree) ==
    LET broken_links == WalkHome(tree, 1, <<>>) IN
    [broken_links |-> broken_links,
     items |-> IF broken_links # <<>>
                  THEN <<Item("broken_symlinks", 0, LinksIn(broken_links),
                              Min(LinksIn(broken_links), SymlinkListCap))>>
                  ELSE <<>>]

InitBrokenSymlinks ==
    /\ PipelineIdle
    /\ CleanItemIdle
    /\ AurIdle
    /\ fn = "check_broken_symlinks"
    /\ arg \in HomeTrees
    /\ ret = <<>>

\* the call check_broken_symlinks()
CallBrokenSymlinks ==
    /\ fn = "check_broken_symlinks"
    /\ ret = <<>>
    /\ ret' = check_broken_symlinks(arg)
    /\ UNCHANGED <<fn, arg, pipelineVars, ciVars, aurVars>>

NextBrokenSymlinks == CallBrokenSymlinks

SpecBrokenSymlinks == InitBrokenSymlinks /\ [][NextBrokenSymlinks]_vars

(* --------------------- ArchCleaner.check_old_configs ------------------ *)

\* subprocess.run(argv, capture_output=..., stderr=...): Popen's arguments are
\* checked before anything is started, and capture_output together with
\* stdout or stderr is a ValueError; else the command runs
RunArgvWith(out, capture_output, stderr_given) ==
    IF capture_output /\ stderr_given
       THEN [raised |-> TRUE, returncode |-> -1]
       ELSE RunArgv(out)

\* a file `find` printed: its suffix, and its st_size (-1: it is gone by the
\* time it is looked at, Path(f).exists() is False)
ConfigFiles == [suffix : {".pacnew", ".pacsave"}, size : {-1, 0, 120}]

\* the loop `for f in files`: total_size
RECURSIVE ConfigsTotal(_)
ConfigsTotal(files) ==
    IF files = <<>> THEN 0
    ELSE (IF Head(files).size >= 0 THEN Head(files).size ELSE 0)
         + ConfigsTotal(Tail(files))

\* check_old_configs: the items appended. `find` is called with
\* capture_output=True and stderr=subprocess.DEVNULL; what it raises is
\* caught by `except Exception: pass`
check_old_configs(findOut, files) ==
    LET result == RunArgvWith(findOut, TRUE, TRUE) IN
    IF result.raised THEN <<>>
    ELSE IF result.returncode = 0 /\ files # <<>> /\ ConfigsTotal(files) > 0
        THEN <<[type |-> "old_configs", size |-> ConfigsTotal(files),
                count |-> Len(files), files |-> files, safe |-> FALSE,
                reversible |-> FALSE]>>
        ELSE <<>>

InitOldConfigs ==
    /\ PipelineIdle
    /\ CleanItemIdle
    /\ AurIdle
    /\ fn = "check_old_configs"
    /\ arg \in [find : CmdOutcomes,
                 files : UNION {[1..n -> ConfigFiles] : n \in 0..MaxConfigFiles}]
    /\ ret = <<>>

\* the call check_old_configs()
CallOldConfigs ==
    /\ fn = "check_old_configs"
    /\ ret = <<>>
    /\ ret' = [items |-> check_old_configs(arg.find, arg.files)]
    /\ UNCHANGED <<fn, arg, pipelineVars, ciVars, aurVars>>

NextOldConfigs == CallOldConfigs

SpecOldConfigs == InitOldConfigs /\ [][NextOldConfigs]_vars

(* --------------------- ArchCleaner.check_journal_logs ----------------- *)

\* Sizes of the journal are kept in blocks of 512 bytes (half a KiB), so that
\* half a unit is a whole number and a usage of some hundred G stays small.
\* `if size > 500 * 1024 * 1024`, in blocks
JournalThreshold == 500 * 1024 * 2

\* The text after "take up" in the output of `journalctl --disk-usage`: the
\* digits before the decimal point, the digit after it (-1: the number is
\* written without a decimal point), the unit letter, and whether words
\* follow the unit before the full stop (" in the file system.")
JournalUsages ==
    [whole : {0, 1, 499, 500, 501, 600}, frac : {-1, 0, 5},
     unit : {"K", "M", "G"}, words : BOOLEAN]

\* output.split("take up")[1].split(".")[0].strip(): the text up to the
\* first '.', which is the decimal point when the number has one
size_str(usage) ==
    IF usage.frac # -1
       THEN [digits |-> usage.whole, unit |-> "", words |-> FALSE]
       ELSE [digits |-> usage.whole, unit |-> usage.unit, words |-> usage.words]

\* the factor of the branch `if "G" in size_str ... elif "M" ... elif "K"`
\* in blocks (0: no branch is taken, size stays 0)
UnitFactor(unit) ==
    CASE unit = "G" -> 1024 * 1024 * 2
      [] unit = "M" -> 1024 * 2
      [] unit = "K" -> 2
      [] OTHER -> 0

\* float(size_str.replace(unit, "")): a ValueError when words are left
\* around the digits
ParseFloat(str) ==
    IF str.words THEN [raised |-> TRUE, value |-> 0]
    ELSE [raised |-> FALSE, value |-> str.digits]

\* check_journal_logs: the items appended
check_journal_logs(runOut, usage) ==
    LET result == RunArgv(runOut)
        str == size_str(usage)
        number == ParseFloat(str)
        size == number.value * UnitFactor(str.unit)
    IN IF result.raised \/ result.returncode # 0 THEN <<>>
       ELSE IF UnitFactor(str.unit) = 0 THEN <<>>
       ELSE IF number.raised THEN <<>>
       ELSE IF size > JournalThreshold
          THEN <<[type |-> "journal", size |-> size, safe |-> TRUE,
                  reversible |-> FALSE]>>
          ELSE <<>>

InitJournal ==
    /\ PipelineIdle
    /\ CleanItemIdle
    /\ AurIdle
    /\ fn = "check_journal_logs"
    /\ arg \in [run : CmdOutcomes, usage : JournalUsages]
    /\ ret = <<>>

\* the call check_journal_logs()
CallJournal ==
    /\ fn = "check_journal_logs"
    /\ ret = <<>>
    /\ ret' = [items |-> check_journal_logs(arg.run, arg.usage)]
    /\ UNCHANGED <<fn, arg, pipelineVars, ciVars, aurVars>>

NextJournal == CallJournal

SpecJournal == InitJournal /\ [][NextJournal]_vars

(* ------------------- ArchCleaner.check_duplicate_files ---------------- *)

\* A file of the search roots: its st_size, the SHA-256 of its content, and
\* what opening it for _hash_file raises. The files are handed over in the
\* order rglob comes to them; the path of a file is its place in that order.
DupFiles == [size : {1024, 1025}, digest : {"d1", "d2"}, fault : {"none", "perm_denied"}]

\* whether a file gets into file_hashes: larger than 1 KB, and hashed
\* without PermissionError / OSError
Hashed(f) == f.size > 1024 /\ f.fault = "none"

\* file_hashes[digest]: the paths appended under a digest, in order
RECURSIVE PathsWithDigest(_, _, _)
PathsWithDigest(files, digest, i) ==
    IF i > Len(files) THEN <<>>
    ELSE (IF Hashed(files[i]) /\ files[i].digest = digest THEN <<i>> ELSE <<>>)
         \o PathsWithDigest(files, digest, i + 1)

\* the keys of file_hashes in the order of their insertion
RECURSIVE DigestsInOrder(_, _, _)
DigestsInOrder(files, i, seen) ==
    IF i > Len(files) THEN <<>>
    ELSE IF Hashed(files[i]) /\ files[i].digest \notin seen
        THEN <<files[i].digest>>
             \o DigestsInOrder(files, i + 1, seen \cup {files[i].digest})
        ELSE DigestsInOrder(files, i + 1, seen)

\* a group listed whole
WholeGroup(paths) == paths

\* files[1:] - "keep first, remove rest"
AllButFirst(paths) == Tail(paths)

\* the loop over file_hashes.items(): duplicates
RECURSIVE CollectDuplicates(_, _)
CollectDuplicates(files, digests) ==
    IF digests = <<>> THEN <<>>
    ELSE LET group == PathsWithDigest(files, Head(digests), 1) IN
         (IF Len(group) > 1 THEN AllButFirst(group) ELSE <<>>)
         \o CollectDuplicates(files, Tail(digests))

\* check_duplicate_files: the items appended
check_duplicate_files(files) ==
    LET duplicates == CollectDuplicates(files, DigestsInOrder(files, 1, {})) IN
    IF duplicates # <<>>
       THEN <<[type |-> "duplicates", count |-> Len(duplicates),
               duplicates |-> duplicates, safe |-> FALSE, reversible |-> TRUE]>>
       ELSE <<>>

InitDuplicates ==
    /\ PipelineIdle
    /\ CleanItemIdle
    /\ AurIdle
    /\ fn = "check_duplicate_files"
    /\ arg \in UNION {[1..n -> DupFiles] : n \in 0..MaxDupFiles}
    /\ ret = <<>>

\* the call check_duplicate_files()
CallDuplicates ==
    /\ fn = "check_duplicate_files"
    /\ ret = <<>>
    /\ ret' = [items |-> check_duplicate_files(arg)]
    /\ UNCHANGED <<fn, arg, pipelineVars, ciVars, aurVars>>

NextDuplicates == CallDuplicates

SpecDuplicates == InitDuplicates /\ [][NextDuplicates]_vars

(* ---- check_user_cache, check_build_caches, check_thumbnails ---------- *)

\* the sub-directories of ~/.cache looked at, in one listing order
CacheSubdirs ==
    << Name(<<"thumbnails">>, FALSE),
       Name(<<"pip">>, FALSE),
       Name(<<"pip", "tools">>, FALSE),
       Name(<<"go", "build">>, FALSE),
       Name(<<"mozilla">>, FALSE) >>

\* what get_dir_size gives for a directory (-1: the directory does not exist)
CacheDirSizes == {-1, 60 * MiB, 150 * MiB, 250 * MiB}

\* The directories the three checks read: the sub-directories of ~/.cache
\* with their sizes, whether iterdir() lists them in the order above or in
\* the reverse one, and ~/.npm, ~/.cargo/registry/cache, ~/.m2/repository.
CacheHomes ==
    [cache : [1..Len(CacheSubdirs) -> CacheDirSizes],
     reverse : BOOLEAN,
     npm : {-1, 150 * MiB},
     cargo : {-1, 250 * MiB},
     maven : {-1, 600 * MiB}]

\* a location: a sub-directory of ~/.cache, or a directory of ~ elsewhere
CachePath(name) == [under |-> ".cache", name |-> name]
HomePath(name) == [under |-> "~", name |-> name]

\* cache_dir.iterdir(): the indices of the existing sub-directories
RECURSIVE IterCache(_, _)
IterCache(home, i) ==
    IF i > Len(CacheSubdirs) THEN <<>>
    ELSE LET rest == IterCache(home, i + 1)
             this == IF home.cache[i] # -1 THEN <<i>> ELSE <<>> IN
         IF home.reverse THEN rest \o this ELSE this \o rest

\* cache_items: the sub-directories larger than 50 MB
cache_items(home) ==
    {i \in 1..Len(CacheSubdirs) : home.cache[i] > 50 * MiB}

\* safe_caches, in one order of iteration (a set in the source; the order
\* decides only the order of the items appended)
safe_caches ==
    << <<"thumbnails">>, <<"pip">>, <<"npm">>, <<"go", "build">>,
       <<"cargo">>, <<"maven">> >>

\* `cache_name in subdir.name.lower()`: a substring test, at the grain of words
NameContains(name, words) ==
    \E i \in 1..(Len(name.words) - Len(words) + 1) :
        SubSeq(Lower(name).words, i, i + Len(words) - 1) = words

\* the inner loop of check_user_cache for one cache_name: it ends at the
\* first listed sub-directory that has the name in it and is in cache_items
RECURSIVE FirstCached(_, _, _)
FirstCached(home, listing, cache_name) ==
    IF listing = <<>> THEN <<>>
    ELSE LET i == Head(listing) IN
         IF NameContains(CacheSubdirs[i], cache_name) /\ i \in cache_items(home)
            THEN (IF home.cache[i] > 100 * MiB
                     THEN <<[type |-> "user_cache",
                             path |-> CachePath(CacheSubdirs[i]),
                             size |-> home.cache[i], caches |-> <<>>]>>
                     ELSE <<>>)
            ELSE FirstCached(home, Tail(listing), cache_name)

\* check_user_cache: the items appended
RECURSIVE check_user_cache(_, _)
check_user_cache(home, n) ==
    IF n > Len(safe_caches) THEN <<>>
    ELSE FirstCached(home, IterCache(home, 1), safe_caches[n])
         \o check_user_cache(home, n + 1)

\* one build cache: listed when the directory exists and is above its limit
BuildCache(name, path, size, limit) ==
    IF size # -1 /\ size > limit
       THEN <<[name |-> name, path |-> path, size |-> size]>>
       ELSE <<>>

RECURSIVE SumCacheSizes(_)
SumCacheSizes(caches) ==
    IF caches = <<>> THEN 0 ELSE Head(caches).size + SumCacheSizes(Tail(caches))

\* check_build_caches: the items appended
check_build_caches(home) ==
    LET build_caches ==
            BuildCache("npm cache", HomePath(Name(<<".npm">>, FALSE)),
                       home.npm, 100 * MiB)
            \o BuildCache("Cargo registry cache",
                          HomePath(Name(<<".cargo", "registry", "cache">>, FALSE)),
                          home.cargo, 200 * MiB)
            \o BuildCache("Pip cache", CachePath(CacheSubdirs[2]),
                          home.cache[2], 100 * MiB)
            \o BuildCache("Go build cache", CachePath(CacheSubdirs[4]),
                          home.cache[4], 200 * MiB)
            \o BuildCache("Maven cache",
                          HomePath(Name(<<".m2", "repository">>, FALSE)),
                          home.maven, 500 * MiB) IN
    IF build_caches # <<>>
       THEN <<[type |-> "build_cache", path |-> HomePath(Name(<<>>, FALSE)),
               size |-> SumCacheSizes(build_caches), caches |-> build_caches]>>
       ELSE <<>>

\* check_thumbnails: the items appended
check_thumbnails(home) ==
    IF home.cache[1] # -1 /\ home.cache[1] > 50 * MiB
       THEN <<[type |-> "thumbnails", path |-> CachePath(CacheSubdirs[1]),
               size |-> home.cache[1], caches |-> <<>>]>>
       ELSE <<>>

InitCacheChecks ==
    /\ PipelineIdle
    /\ CleanItemIdle
    /\ AurIdle
    /\ fn = "scan_system"
    /\ arg \in CacheHomes
    /\ ret = <<>>

\* the three checks as scan_system calls them, in its order
CallCacheChecks ==
    /\ fn = "scan_system"
    /\ ret = <<>>
    /\ ret' = [items |-> check_user_cache(arg, 1)
                          \o check_build_caches(arg)
                          \o check_thumbnails(arg)]
    /\ UNCHANGED <<fn, arg, pipelineVars, ciVars, aurVars>>

NextCacheChecks == CallCacheChecks

SpecCacheChecks == InitCacheChecks /\ [][NextCacheChecks]_vars

(* ============================== properties ============================ *)

NoDup(s) == \A i, j \in 1..Len(s) : i # j => s[i] # s[j]

StrictlyIncreasing(s) == \A i, j \in 1..Len(s) : i < j => s[i] < s[j]

IsPrefix(s, t) == Len(s) <= Len(t) /\ \A i \in 1..Len(s) : s[i] = t[i]

\* the (0-based) indices of the items with safe=true
SafeIndexSet == {i \in 0..(Len(items_to_clean) - 1) : items_to_clean[i + 1].safe}

IsItemLine(l) == l.mark # ""

(* ---------------------------------- C1 -------------------------------- *)

\* C1 (as stated): right after the command 'a' the selection is exactly the
\* safe items, in list order, whatever it was before - also when no item is
\* safe.
C1_Original ==
    (pc = "select" /\ choice = "a") =>
        /\ StrictlyIncreasing(selected_items)
        /\ Range(selected_items) = SafeIndexSet

\* C1 (amended): a step of the command 'a' leaves the selection equal to
\* exactly the safe items, in list order, whatever it was before, when at
\* least one item is safe; when none is, it leaves the selection as it was,
\* so 'a' never adds an item with safe=false.
C1_BulkSelectSafe ==
    [][(pc = "select" /\ pc' = "select" /\ choice' = "a") =>
          IF SafeIndexSet # {}
             THEN /\ StrictlyIncreasing(selected_items')
                  /\ Range(selected_items') = SafeIndexSet
             ELSE selected_items' = selected_items]_vars

\* 'a' was used on a list whose first item is not safe and whose second is
C1_Witness ==
    /\ pc = "select"
    /\ choice = "a"
    /\ Len(items_to_clean) = 2
    /\ ~items_to_clean[1].safe
    /\ selected_items = <<1>>

(* ---------------------------------- C2 -------------------------------- *)

\* C2: as long as 'Proceed with cleanup?' has not been answered yes - the
\* user quit the selection loop with 'q' (the prompt is never reached) or
\* declined - _clean_item was never called and no Timeshift snapshot was
\* deleted or created.
C2_NoDestructionWithoutConfirmation ==
    (choice = "q" \/ proceed # "yes") =>
        /\ clean_calls = <<>>
        /\ ts_calls = <<>>
        /\ pc \notin {"backup", "clean_start", "cleaning"}

\* the user asked for a backup, with two tagged snapshots present, and then
\* declined the cleanup
C2_Witness ==
    /\ pc = "done"
    /\ proceed = "no"
    /\ create_backup
    /\ Cardinality(snapshots) = 2
    /\ selected # <<>>

(* ---------------------------------- C3 -------------------------------- *)

\* C3: once the cleanup is confirmed, _clean_item is called for every item of
\* the list, in list order, whatever the earlier calls returned (a routine
\* that raises returns False); the run ends without reaching the exception
\* handler of main.
C3_ExecutorContinues ==
    /\ Len(clean_calls) <= Len(selected)
    /\ \A k \in 1..Len(clean_calls) : clean_calls[k].item = selected[k]
    /\ (pc = "cleaning" => Len(clean_calls) = clean_pos - 1)
    /\ (pc = "done" /\ proceed = "yes" => Len(clean_calls) = Len(selected))
    /\ (proceed = "yes" => pc # "main_except")

\* two items were cleaned and the routine of the first one failed
C3_Witness ==
    /\ pc = "done"
    /\ Len(clean_calls) = 2
    /\ ~clean_calls[1].ok
    /\ clean_calls[2].ok

(* ---------------------------------- C4 -------------------------------- *)

\* the marked lines of the log are, in order, one per _clean_item call, with
\* the description of its item and the success mark iff it returned True
LogMatchesCalls ==
    LET lines == SelectSeq(log, IsItemLine) IN
    /\ Len(lines) = Len(clean_calls)
    /\ \A k \in 1..Len(lines) :
          /\ lines[k].text = Description(clean_calls[k].item)
          /\ (lines[k].mark = "ok") <=> clean_calls[k].ok

\* C4: every step leaves the earlier log lines as they were (lines are only
\* appended), and after every step the log holds exactly one marked line per
\* item processed, with the item's description and the success mark iff the
\* routine returned True - with or without a backup, whatever its outcome.
C4_OneLogLinePerItem ==
    [][IsPrefix(log, log') /\ LogMatchesCalls']_vars

\* a cleanup after a backup logged one success and one failure
C4_Witness ==
    /\ pc = "done"
    /\ ts_calls # <<>>
    /\ \E i, j \in 1..Len(log) : log[i].mark = "ok" /\ log[j].mark = "fail"

(* ---------------------------------- C5 -------------------------------- *)

\* C5: for an item whose payload is a list of sub-entries, when the removal
\* of at least one sub-entry fails _clean_item returns False, and every
\* sub-entry is attempted.
C5_PartialFailureIsFailure ==
    (ci_result.called /\ ci_item.type \in ListTypes /\ ci_env.fail # {}) =>
        /\ ~ci_result.ok
        /\ ci_result.attempted = 1..ci_item.payload

(* ---------------------------------- C6 -------------------------------- *)

\* C6: a routine that runs external commands (pacman_cache, orphans,
\* journal) returns False whenever a command it ran is missing, exits
\* non-zero or times out.
C6_FailedCommandIsFailure ==
    (/\ ci_result.called
     /\ ci_item.type \in {"pacman_cache", "orphans", "journal"}
     /\ ci_env.cmd1 # "exit0") => ~ci_result.ok

(* ---------------------------------- C7 -------------------------------- *)

\* C7: whatever fails inside a check, scan_system runs every check of its
\* sequence and reaches its end, where 'Scan completed' is logged.
C7_ScanRunsEveryCheck ==
    pc # "scan" =>
        /\ scan_ran = ScanSequence
        /\ Len(log) >= 1
        /\ log[1].text[1] = "Scan completed"

(* ---------------------------------- C8 -------------------------------- *)

\* C8: the selection never holds an index twice; in the menu it holds
\* exactly the indices the commands so far ('a', 's' toggles) leave selected;
\* the status the detail view shows is that state of its item; and what 'c'
\* returns is exactly the items in that state, each once.
C8_ReturnsToggleState ==
    /\ NoDup(selected_items)
    /\ (pc = "select" => Range(selected_items) = toggle_state)
    /\ (pc = "detail" => (is_selected <=> detail_index \in toggle_state))
    /\ (pc = "clean_items" =>
          /\ NoDup(returned_idx)
          /\ Range(returned_idx) = toggle_state
          /\ Len(selected) = Len(returned_idx)
          /\ \A k \in 1..Len(selected) :
                selected[k] = items_to_clean[returned_idx[k] + 1])

\* 'c' returned two items that were toggled by hand, the second before the
\* first
C8_Witness ==
    /\ pc = "clean_items"
    /\ choice = "c"
    /\ Len(returned_idx) = 2
    /\ returned_idx[1] > returned_idx[2]

(* ---------------------------------- C9 -------------------------------- *)

\* C9: the list select_items returns is ordered by position in the scan
\* result list, whatever the order of the toggles.
C9_ReturnedInListOrder ==
    pc = "clean_items" => StrictlyIncreasing(returned_idx)

(* ---------------------------------- C10 ------------------------------- *)

\* C10: a call that finds the cache file younger than 24 hours returns its
\* contents without a network request; a call that finds it older or missing
\* ends with the cache file rewritten at the time of the call.
C10_CacheFreshness ==
    (aur_pc = "idle" /\ aur_call.done) =>
        IF aur_call.kind = "hit"
           THEN requests = 0 /\ aur_return = cache_packages
           ELSE cache_mtime = aur_call.start

(* ---------------------------------- C11 ------------------------------- *)

\* C11: a fetch sequence that a failure on some page ends (or that ends
\* normally) returns exactly the set of names accumulated from the pages read
\* before, and the call does not raise.
C11_FailureReturnsAccumulated ==
    (aur_pc = "idle" /\ aur_call.done /\ aur_call.kind = "miss") =>
        aur_return = packages

(* ---------------------------------- C12 ------------------------------- *)

\* C12: every fetch sequence ends, whatever the server answers: a call that
\* is fetching pages eventually returns.
C12_FetchTerminates == (aur_pc = "fetching") ~> (aur_pc = "idle")

(* ---------------------------------- C13 ------------------------------- *)

\* the most recent of a non-empty set of snapshot dates
Newest(snaps) == CHOOSE x \in snaps : \A y \in snaps : y <= x

\* C13: when both timeshift calls succeed, remove_old_backup leaves exactly
\* the newest tagged snapshot when there were several, and deletes nothing
\* when there was at most one.
C13_PruneToNewest ==
    (fn = "remove_old_backup" /\ ret # <<>>
        /\ arg.listOut = "exit0" /\ arg.delOut = "exit0") =>
        IF Cardinality(arg.snaps) > 1
           THEN ret.snaps = {Newest(arg.snaps)}
           ELSE ret.snaps = arg.snaps /\ ret.calls = <<>>

(* ---------------------------------- C14 ------------------------------- *)

\* C14: when a backup was asked for and the cleanup confirmed, no deletion
\* routine has run while ensure_single_backup has not finished, the first one
\* runs only after it was called, and whatever the timeshift calls did the
\* run ends with every selected item processed, never in the exception
\* handler of main.
C14_BackupThenEveryItem ==
    (create_backup /\ proceed = "yes") =>
        /\ (pc = "backup" => clean_calls = <<>> /\ ts_calls = <<>>)
        /\ (clean_calls # <<>> => InList("create", ts_calls))
        /\ (pc = "done" =>
                /\ Len(clean_calls) = Len(selected)
                /\ \A k \in 1..Len(selected) : clean_calls[k].item = selected[k])
        /\ pc # "main_except"

\* the backup was asked for, `timeshift delete` and `timeshift create` both
\* failed (the two snapshots are still there), and both items were processed
C14_Witness ==
    /\ pc = "done"
    /\ create_backup
    /\ proceed = "yes"
    /\ ts_calls = <<"delete", "create">>
    /\ snapshots = {1, 2}
    /\ Len(clean_calls) = 2

(* ---------------------------------- C15 ------------------------------- *)

\* the files of a group that are not among its 3 most recently modified
BeyondThreeNewest(pkg_files) ==
    {f \in pkg_files : Cardinality({g \in pkg_files : g.mtime > f.mtime}) >= 3}

RECURSIVE SetSizes(_)
SetSizes(files) ==
    IF files = {} THEN 0
    ELSE LET f == CHOOSE x \in files : TRUE
         IN f.size + SetSizes(files \ {f})

\* over the groups 1..n: how many files are beyond the 3 newest of their group
RECURSIVE RemovableCount(_, _)
RemovableCount(groups, n) ==
    IF n = 0 THEN 0
    ELSE Cardinality(BeyondThreeNewest(groups[n])) + RemovableCount(groups, n - 1)

\* over the groups 1..n: the sizes of those files, summed
RECURSIVE RemovableSize(_, _)
RemovableSize(groups, n) ==
    IF n = 0 THEN 0
    ELSE SetSizes(BeyondThreeNewest(groups[n])) + RemovableSize(groups, n - 1)

\* C15: the package-cache check counts as removable, for each package name,
\* all archives but the 3 most recently modified (max(0, k - 3) of k), and
\* the size it reports is the sum of the sizes of exactly those archives.
C15_KeepThreeNewest ==
    (fn = "check_pacman_cache" /\ ret # <<>>) =>
        /\ ret.packages_to_remove = RemovableCount(arg, Len(arg))
        /\ ret.size_to_remove = RemovableSize(arg, Len(arg))
        /\ \A k \in 1..Len(ret.items) :
              /\ ret.items[k].size = RemovableSize(arg, Len(arg))
              /\ ret.items[k].count = RemovableCount(arg, Len(arg))

(* ---------------------------------- C16 ------------------------------- *)

\* the names in the payload of the items a call appended
PayloadNames(items) ==
    UNION {{items[k].dirs[j].name : j \in 1..Len(items[k].dirs)} :
              k \in 1..Len(items)}

\* the skip conditions of the orphaned-config-directory check
MeetsSkipCondition(d) ==
    \/ d.name \in system_critical_dirs
    \/ d.name \in critical_files
    \/ d.owned = "exit0"
    \/ \E pkg \in aur_packages : Lower(pkg) = Lower(d.name)
    \/ \E app \in common_apps : Contains(Lower(d.name), app)

\* C16: a top-level /etc directory that meets any skip condition (critical
\* name, critical path, owned by a package, name in the remote index whatever
\* its case, name containing a common service name) is never in the payload
\* of the etc_orphaned item, whatever its size and the other conditions.
C16_SkippedNeverReported ==
    (fn = "check_etc_orphaned_dirs" /\ ret # <<>>) =>
        \A i \in 1..Len(arg) :
            MeetsSkipCondition(arg[i]) => arg[i].name \notin PayloadNames(ret.items)

\* an item was appended for one directory while the other one, not empty and
\* owned by no package, was skipped for its name alone: in the remote index
\* once both are put in lower case
C16_Witness ==
    /\ fn = "check_etc_orphaned_dirs"
    /\ ret # <<>>
    /\ Len(ret.items) = 1
    /\ \E i \in 1..Len(arg) :
          /\ arg[i].name = Name(<<"yay">>, TRUE)
          /\ arg[i].is_dir /\ arg[i].size > 0 /\ arg[i].owned = "nonzero"

(* ---------------------------------- C17 ------------------------------- *)

\* C17: every step leaves the items already in the list as they are, in
\* place; once the scan is over (in display_results, select_items,
\* show_item_details, clean_items) the list does not change at all, and the
\* items handed to clean_items are items of the list, unchanged.
C17_ItemsAppendOnlyThenFrozen ==
    [][/\ IsPrefix(items_to_clean, items_to_clean')
       /\ (pc # "scan" => items_to_clean' = items_to_clean)
       /\ \A k \in 1..Len(selected') :
             selected'[k] = items_to_clean'[returned_idx'[k] + 1]]_vars

\* a scan appended two items, the second one after the first, and the
\* cleanup then ran over both
C17_Witness ==
    /\ pc = "done"
    /\ Len(items_to_clean) = 2
    /\ Len(scan_ran) = Len(ScanSequence)
    /\ Len(clean_calls) = 2

(* ---------------------------------- C18 ------------------------------- *)

\* whether an entry is a regular file that can be read
CountedFile(e) == e.kind = "file" /\ e.fault = "none"

\* whether an entry is a directory, not a symlink, that can be read
WalkedDir(e) == e.kind = "dir" /\ e.fault = "none"

RECURSIVE SumOfSizes(_, _)
SumOfSizes(entries, S) ==
    IF S = {} THEN 0
    ELSE LET i == CHOOSE x \in S : TRUE
         IN entries[i].size + SumOfSizes(entries, S \ {i})

\* the sizes of the regular files directly in a list of entries
FilesIn(entries) ==
    SumOfSizes(entries, {i \in 1..Len(entries) : CountedFile(entries[i])})

RECURSIVE FilesBelow(_, _)
FilesBelow(entries, S) ==
    IF S = {} THEN 0
    ELSE LET i == CHOOSE x \in S : TRUE
         IN FilesIn(entries[i].children) + FilesBelow(entries, S \ {i})

\* C18: get_dir_size(D) is not negative and is the sum of the sizes of the
\* regular files, symlinks excluded, in D and in the directories of D that
\* are not symlinks; an entry or a sub-directory that is gone or may not be
\* read counts for 0, and so does D itself.
C18_DirSizeIsSumOfRegularFiles ==
    (fn = "get_dir_size" /\ ret # <<>>) =>
        /\ ret.total >= 0
        /\ ret.total =
              IF ~WalkedDir(arg) THEN 0
              ELSE FilesIn(arg.children)
                   + FilesBelow(arg.children,
                                {i \in 1..Len(arg.children) : WalkedDir(arg.children[i])})

\* a tree with a regular file next to a symlink to a directory that holds a
\* file: the size returned is that of the regular file alone
C18_Witness ==
    /\ fn = "get_dir_size"
    /\ ret # <<>>
    /\ ret.total = 4096
    /\ Len(arg.children) = 2
    /\ arg.children[1] = Entry("file", 4096, "none", <<>>)
    /\ arg.children[2].kind = "symlink"
    /\ arg.children[2].children = <<Entry("file", 4096, "none", <<>>)>>

(* ---------------------------------- C19 ------------------------------- *)

\* C19: the broken links check_broken_symlinks records are never more than
\* the safety cap of 1000, whatever the home tree.
C19_RecordedWithinCap ==
    (fn = "check_broken_symlinks" /\ ret # <<>>) =>
        /\ LinksIn(ret.broken_links) <= 1000
        /\ \A k \in 1..Len(ret.items) : ret.items[k].count <= 1000

(* ---------------------------------- C20 ------------------------------- *)

\* whether a directory is, or is beneath, an excluded subtree of the home
\* directory: .git, .cache, snap, or the trash .local/share/Trash
InExcludedSubtree(path) ==
    \/ \E i \in 1..Len(path) : path[i] \in {".git", ".cache", "snap"}
    \/ /\ Len(path) >= 3
       /\ SubSeq(path, 1, 3) = <<".local", "share", "Trash">>

\* C20: no broken link recorded by check_broken_symlinks lies in an excluded
\* subtree of the home directory.
C20_ExcludedSubtreesNotRecorded ==
    (fn = "check_broken_symlinks" /\ ret # <<>>) =>
        \A k \in 1..Len(ret.broken_links) :
            ~InExcludedSubtree(ret.broken_links[k].root)

(* ---------------------------------- C21 ------------------------------- *)

\* C21: when the search of /etc succeeds and prints at least one .pacnew or
\* .pacsave file, and the sizes of the files printed add up to more than 0,
\* the check appends exactly one old_configs item, whose payload lists all
\* the files printed and whose safe flag is false.
C21_StaleConfigsReported ==
    (fn = "check_old_configs" /\ ret # <<>> /\ arg.find = "exit0"
        /\ arg.files # <<>> /\ ConfigsTotal(arg.files) > 0) =>
        /\ Len(ret.items) = 1
        /\ ret.items[1].type = "old_configs"
        /\ ret.items[1].files = arg.files
        /\ ~ret.items[1].safe

(* ---------------------------------- C22 ------------------------------- *)

\* the size a usage stands for, in blocks of 512 bytes; the digit after the
\* decimal point is 0 or 5
BlocksOf(usage) ==
    usage.whole * UnitFactor(usage.unit)
        + (IF usage.frac = 5 THEN UnitFactor(usage.unit) \div 2 ELSE 0)

\* C22: for a disk usage written as a number, with or without a fractional
\* part, and a K, M or G suffix, a journal item is appended exactly when the
\* usage is above 500 MB (500 * 1024 * 1024 bytes), and its size is the
\* usage converted.
C22_JournalSizeConverted ==
    (fn = "check_journal_logs" /\ ret # <<>> /\ arg.run = "exit0") =>
        /\ (ret.items # <<>>) = (BlocksOf(arg.usage) > 500 * 1024 * 2)
        /\ \A k \in 1..Len(ret.items) : ret.items[k].size = BlocksOf(arg.usage)

(* ---------------------------------- C23 ------------------------------- *)

\* the files of the roots that are larger than 1 KiB and could be read
Digested(files) ==
    {i \in 1..Len(files) : files[i].size > 1024 /\ files[i].fault = "none"}

\* the files that come after another file of equal digest
LaterCopies(files) ==
    {i \in Digested(files) :
        \E j \in Digested(files) : j < i /\ files[j].digest = files[i].digest}

\* C23: the payload of the duplicates item holds, for every group of files
\* of equal digest, every member but the first one met, each once, and no
\* other file; so a file of every digest is left out of it; the item is
\* flagged unsafe, and there is an item exactly when there is such a file.
C23_AllButFirstOfEachGroup ==
    (fn = "check_duplicate_files" /\ ret # <<>>) =>
        /\ (ret.items # <<>>) = (LaterCopies(arg) # {})
        /\ \A k \in 1..Len(ret.items) :
              /\ Range(ret.items[k].duplicates) = LaterCopies(arg)
              /\ NoDup(ret.items[k].duplicates)
              /\ ~ret.items[k].safe
              /\ \A i \in Digested(arg) :
                    \E j \in Digested(arg) :
                        /\ arg[j].digest = arg[i].digest
                        /\ ~InList(j, ret.items[k].duplicates)

\* three files of one content: the second and the third are listed, the
\* first is not
C23_Witness ==
    /\ fn = "check_duplicate_files"
    /\ ret # <<>>
    /\ Len(arg) = 3
    /\ \A i \in 1..3 : arg[i].digest = "d1"
    /\ Len(ret.items) = 1
    /\ ret.items[1].duplicates = <<2, 3>>

(* ---------------------------------- C24 ------------------------------- *)

\* C24: the number of links the description of the broken-symlinks item
\* states is the number of entries of its payload, the list the deletion
\* walks.
C24_StatedCountIsPayload ==
    (fn = "check_broken_symlinks" /\ ret # <<>>) =>
        \A k \in 1..Len(ret.items) : ret.items[k].count = ret.items[k].payload

(* ---------------------------------- C25 ------------------------------- *)

\* the directories an item covers: those of its payload for the build
\* caches, else its path
RECURSIVE CachePaths(_)
CachePaths(caches) ==
    IF caches = <<>> THEN <<>>
    ELSE <<Head(caches).path>> \o CachePaths(Tail(caches))

RECURSIVE CoveredBy(_)
CoveredBy(items) ==
    IF items = <<>> THEN <<>>
    ELSE (IF Head(items).type = "build_cache"
             THEN CachePaths(Head(items).caches)
             ELSE <<Head(items).path>>)
         \o CoveredBy(Tail(items))

\* C25: over the items of the user-cache, build-cache and thumbnail checks
\* of one scan, no directory is covered twice.
C25_NoLocationTwice ==
    (fn = "scan_system" /\ ret # <<>>) => NoDup(CoveredBy(ret.items))

(* ---------------------------------- C26 ------------------------------- *)

\* C26: when the package-cache item is cleaned and both paccache runs
\* succeed, the archives removed are exactly the archives whose sizes the
\* scan added to the estimate of the item.
C26_ScanAndCleanAgree ==
    (fn = "pacman_cache" /\ ret # <<>>
        /\ ret.items # <<>> /\ ret.outs = <<"exit0", "exit0">>) =>
        ret.removed = ret.counted

(* ---------------------------------- C27 ------------------------------- *)

\* a call of fetch_aur_packages begins in this step
CallBegins == aur_pc = "idle" /\ calls' = calls + 1

\* the cache file exists and is younger than 24 hours
YoungerThanADay == cache_mtime # -1 /\ now - cache_mtime < 24 * 3600

\* C27: a call whose fetch a URLError or a JSONDecodeError cut short ends
\* with the cache file holding the names accumulated so far, written at the
\* time of the call, and returns them; the cache file changes in no other
\* step than such a write; and a call made while the file is younger than 24
\* hours returns what the file holds, with no request and no write.
C27_PartialSetIsCached ==
    /\ []((aur_pc = "idle" /\ aur_call.done /\ aur_call.cut) =>
            /\ cache_packages = packages
            /\ cache_mtime = aur_call.start
            /\ aur_return = packages)
    /\ [][/\ (aur_pc # "saving") => UNCHANGED <<cache_packages, cache_mtime>>
          /\ (CallBegins /\ YoungerThanADay) =>
                /\ aur_pc' = "idle"
                /\ requests' = 0
                /\ aur_return' = cache_packages]_vars

\* the first page was read, the second one failed, the 250 names were
\* cached in place of the older list, and the next call, 23 hours later,
\* returned them from the file
C27_Witness ==
    /\ aur_pc = "idle"
    /\ aur_call.kind = "hit"
    /\ aur_call.start = 25 * 3600 + 23 * 3600
    /\ cache_mtime = 25 * 3600
    /\ cache_packages = PageNames(0, results_per_page)
    /\ aur_return = cache_packages
    /\ requests = 0

(* ---------------------------------- C28 ------------------------------- *)

\* a step of the command 'a' in the selection loop
BulkStep == pc = "select" /\ pc' = "select" /\ choice' = "a"

\* C28 (as stated): when a safe item exists, no item that was selected
\* before 'a' is selected after it; when none exists, 'a' leaves the
\* selection unchanged.
C28_Original ==
    [][BulkStep =>
          IF SafeIndexSet # {}
             THEN \A i \in Range(selected_items) : ~InList(i, selected_items')
             ELSE UNCHANGED selected_items]_vars

\* C28 (amended): when a safe item exists, of the items selected before 'a'
\* exactly the safe ones are selected after it (every one with safe=false is
\* dropped), whatever else is selected after it is safe, and the detail view
\* is given the new list; when none exists, 'a' leaves both lists unchanged.
C28_BulkReplacesSelection ==
    [][BulkStep =>
          IF SafeIndexSet # {}
             THEN /\ \A i \in Range(selected_items) :
                        InList(i, selected_items') <=> i \in SafeIndexSet
                  /\ Range(selected_items') \ Range(selected_items)
                        \subseteq SafeIndexSet
                  /\ _current_selected_items' = selected_items'
             ELSE UNCHANGED <<selected_items, _current_selected_items>>]_vars

\* 'a' was used on a list whose first item is safe and whose second is not:
\* the first alone is selected, in both lists
C28_Witness ==
    /\ pc = "select"
    /\ choice = "a"
    /\ Len(items_to_clean) = 2
    /\ items_to_clean[1].safe
    /\ ~items_to_clean[2].safe
    /\ selected_items = <<0>>
    /\ _current_selected_items = <<0>>

(* ---------------------------------- C29 ------------------------------- *)

\* a list of indices of the item list, none of them twice
WellFormedSelection(sel) ==
    /\ \A k \in 1..Len(sel) : sel[k] \in 0..(Len(items_to_clean) - 1)
    /\ NoDup(sel)

\* select_items was called and has returned
SelectReturned == choice # "" /\ pc \notin {"select", "detail"}

\* C29: the selection, and the list the detail view reads, hold only valid
\* indices and none twice, at every point; a non-empty list is returned only
\* by 'c' with a non-empty selection, of which it holds the items; an empty
\* list is returned only by 'q' (or for an empty item list); and 'c' with an
\* empty selection stays in the loop and returns nothing.
C29_SelectionWellFormed ==
    /\ [](/\ WellFormedSelection(selected_items)
          /\ WellFormedSelection(_current_selected_items)
          /\ (SelectReturned /\ selected # <<>>) =>
                /\ choice = "c"
                /\ selected_items # <<>>
                /\ returned_idx = selected_items
                /\ Len(selected) = Len(selected_items)
          /\ (SelectReturned /\ selected = <<>>) =>
                (choice = "q" \/ items_to_clean = <<>>))
    /\ [][(pc = "select" /\ choice' = "c" /\ selected_items = <<>>) =>
             (pc' = "select" /\ UNCHANGED <<selected, selected_items>>)]_vars

\* both items were selected from the detail view, the second one first, and
\* 'c' returned the two
C29_Witness ==
    /\ pc = "clean_items"
    /\ choice = "c"
    /\ selected_items = <<1, 0>>
    /\ Len(selected) = 2

(* ---------------------------------- C30 ------------------------------- *)

====
